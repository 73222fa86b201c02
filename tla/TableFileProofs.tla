--------------------------- MODULE TableFileProofs ---------------------------
(***************************************************************************)
(* A table through updates, deletions, saves and restarts, for any scores, *)
(* members, addresses, number of levels and size of a KEY record: its      *)
(* dictionary stays in its list, its heap stays laid out, whatever Delete  *)
(* misses, and what a restart brings back.                                 *)
(***************************************************************************)
EXTENDS Requests, SkipListProofs

-----------------------------------------------------------------------------
(* One sorted set: type correctness, and that no member of the dictionary   *)
(* is missing from the list.  The argument does not follow the walk of      *)
(* Insert and Delete: wherever it ends, Insert adds one node and keeps the  *)
(* contents of the others, and Delete removes at most one node, which holds *)
(* the entry asked for.                                                     *)

\* The part of TypeOK about a list, for lists between two steps of an Update.
ListOK(L) ==
    /\ head_ \in DOMAIN L.node /\ Elements(L) \subseteq Node
    /\ \A n \in DOMAIN L.node : DOMAIN L.node[n] = Fields
    /\ \A n \in Elements(L) : L.node[n].score \in Score /\ L.node[n].val \in Member
    /\ L.level \in 1..MaxLevel /\ L.lenth \in Nat

\* m has a node of score s in L.
Listed(L, s, m) == \E n \in Elements(L) : L.node[n].score = s /\ L.node[n].val = m

-----------------------------------------------------------------------------
\* InsertNode adds the node x with the entry given, and changes score and val
\* of no other node, whatever links it rewrites.
LEMMA InsertNodeEntries ==
    ASSUME NEW L, NEW s, NEW m, NEW lvl, NEW x, x \notin DOMAIN L.node,
           \A n \in DOMAIN L.node : DOMAIN L.node[n] = Fields
    PROVE  LET R == InsertNode(L, s, m, lvl, x) IN
           /\ DOMAIN R.node = DOMAIN L.node \cup {x}
           /\ DOMAIN R.node[x] = Fields /\ R.node[x].score = s /\ R.node[x].val = m
           /\ \A n \in DOMAIN L.node : /\ DOMAIN R.node[n] = Fields
                                       /\ R.node[n].score = L.node[n].score
                                       /\ R.node[n].val = L.node[n].val
           /\ R.level = (IF lvl > L.level THEN lvl ELSE L.level)
           /\ R.lenth = L.lenth + 1
  BY DEF InsertNode, Relinked, Fields, Top

\* A set of natural numbers with an upper bound has a greatest element: the
\* one at the least distance below the bound.
LEMMA GreatestElement ==
    ASSUME NEW bound \in Nat, NEW S \in SUBSET (0..bound), S # {}
    PROVE  \E i \in S : \A j \in S : j <= i
  <1> DEFINE Less == {p \in Nat \X Nat : p[1] < p[2]}
             D    == {bound - i : i \in S}
  <1>1. IsWellFoundedOn(Less, Nat)
    BY NatLessThanWellFounded DEF OpToRel
  <1>2. D \subseteq Nat /\ D # {}
    <2>1. \A i \in S : i \in Nat /\ i <= bound
      OBVIOUS
    <2>2. \A i \in S : bound - i \in Nat
      BY <2>1
    <2> QED BY <2>2
  <1>3. \E d \in D : \A e \in D : <<e, d>> \notin Less
    <2> HIDE DEF Less, D
    <2> QED BY <1>1, <1>2, WFMin
  <1>4. PICK i \in S : \A e \in D : <<e, bound - i>> \notin Less
    BY <1>3
  <1>5. ASSUME NEW j \in S PROVE j <= i
    <2>1. i \in Nat /\ j \in Nat /\ i <= bound /\ j <= bound
      OBVIOUS
    <2>2. <<bound - j, bound - i>> \notin Less
      BY <1>4
    <2>3. ~ (bound - j < bound - i)
      BY <2>1, <2>2
    <2> QED BY <2>1, <2>3
  <1> QED BY <1>5

\* The level DeleteNode falls back to is one the list had.
LEMMA LevelInUseBounds ==
    ASSUME NEW node, NEW level \in 1..MaxLevel
    PROVE  LevelInUse(node, level) \in 1..level
  <1> DEFINE used == {1} \cup {i \in 1..level : node[head_].level[i].forward # NULL}
  <1>1. used \in SUBSET (1..level) /\ used \in SUBSET (0..level) /\ used # {}
    BY LevelAssumption
  <1>2. level \in Nat
    BY LevelAssumption
  <1> HIDE DEF used
  <1>3. \E i \in used : \A j \in used : j <= i
    BY <1>1, <1>2, GreatestElement
  <1>4. (CHOOSE i \in used : \A j \in used : j <= i) \in used
    BY <1>3
  <1> QED BY <1>1, <1>4 DEF LevelInUse, used

\* DeleteNode frees x and changes score and val of no other node.
LEMMA DeleteNodeEntries ==
    ASSUME NEW L, NEW x, NEW update,
           \A n \in DOMAIN L.node : DOMAIN L.node[n] = Fields
    PROVE  LET R == DeleteNode(L, x, update) IN
           /\ DOMAIN R.node = DOMAIN L.node \ {x}
           /\ \A n \in DOMAIN L.node \ {x} : /\ DOMAIN R.node[n] = Fields
                                             /\ R.node[n].score = L.node[n].score
                                             /\ R.node[n].val = L.node[n].val
           /\ R.level = LevelInUse(R.node, L.level)
           /\ R.lenth = L.lenth + 1
  BY DEF DeleteNode, Relinked, Fields

-----------------------------------------------------------------------------
\* Insert keeps a list well typed and every entry of it, and adds its own.
LEMMA InsertNodeListed ==
    ASSUME NEW L, ListOK(L), NEW s \in Score, NEW m \in Member,
           NEW lvl \in 1..MaxLevel, NEW x \in Node \ DOMAIN L.node
    PROVE  LET R == InsertNode(L, s, m, lvl, x) IN
           /\ ListOK(R)
           /\ Listed(R, s, m)
           /\ \A t, o : Listed(L, t, o) => Listed(R, t, o)
  <1> DEFINE R == InsertNode(L, s, m, lvl, x)
  <1>1. /\ DOMAIN R.node = DOMAIN L.node \cup {x}
        /\ DOMAIN R.node[x] = Fields /\ R.node[x].score = s /\ R.node[x].val = m
        /\ \A n \in DOMAIN L.node : /\ DOMAIN R.node[n] = Fields
                                    /\ R.node[n].score = L.node[n].score
                                    /\ R.node[n].val = L.node[n].val
        /\ R.level = (IF lvl > L.level THEN lvl ELSE L.level)
        /\ R.lenth = L.lenth + 1
    BY InsertNodeEntries DEF ListOK
  <1> HIDE DEF R
  <1>2. Elements(R) = Elements(L) \cup {x}
    BY <1>1, AddressAssumption DEF Elements
  <1>3. R.level \in 1..MaxLevel
    BY <1>1 DEF ListOK
  <1>4. ListOK(R)
    BY <1>1, <1>2, <1>3, AddressAssumption DEF ListOK, Elements
  <1>5. Listed(R, s, m)
    BY <1>1, <1>2 DEF Listed
  <1>6. \A t, o : Listed(L, t, o) => Listed(R, t, o)
    BY <1>1, <1>2 DEF Listed, Elements
  <1> QED BY <1>4, <1>5, <1>6 DEF R

\* The node Delete unlinks holds the entry it was asked for.
LEMMA TargetHolds ==
    ASSUME NEW L, NEW s, NEW m, Target(L, s, m) # NULL
    PROVE  LET x == Target(L, s, m) IN
           x \in Elements(L) /\ L.node[x].score = s /\ L.node[x].val = m
  BY DEF Target

\* Delete keeps a list well typed and loses no entry of another member,
\* whether it finds its own or not.
LEMMA DeleteMemberListed ==
    ASSUME NEW L, ListOK(L), NEW s, NEW m
    PROVE  LET R == DeleteMember(L, s, m) IN
           /\ ListOK(R)
           /\ \A t, o : o # m /\ Listed(L, t, o) => Listed(R, t, o)
  <1>1. CASE Target(L, s, m) = NULL
    BY <1>1 DEF DeleteMember
  <1>2. CASE Target(L, s, m) # NULL
    <2> DEFINE x == Target(L, s, m)
               R == DeleteNode(L, x, PathTo(L, s, m))
    <2>1. x \in Elements(L) /\ L.node[x].val = m
      BY <1>2, TargetHolds
    <2>2. DeleteMember(L, s, m) = R
      BY <1>2 DEF DeleteMember
    <2>3. /\ DOMAIN R.node = DOMAIN L.node \ {x}
          /\ \A n \in DOMAIN L.node \ {x} : /\ DOMAIN R.node[n] = Fields
                                            /\ R.node[n].score = L.node[n].score
                                            /\ R.node[n].val = L.node[n].val
          /\ R.level = LevelInUse(R.node, L.level)
          /\ R.lenth = L.lenth + 1
      BY DeleteNodeEntries DEF ListOK
    <2> HIDE DEF x, R
    <2>4. Elements(R) = Elements(L) \ {x}
      BY <2>3 DEF Elements
    <2>5. R.level \in 1..MaxLevel
      <3>1. R.level \in 1..L.level
        BY <2>3, LevelInUseBounds DEF ListOK
      <3> QED BY <3>1, LevelAssumption DEF ListOK
    <2>6. ListOK(R)
      BY <2>1, <2>3, <2>4, <2>5 DEF ListOK, Elements
    <2>7. \A t, o : o # m /\ Listed(L, t, o) => Listed(R, t, o)
      BY <2>1, <2>3, <2>4 DEF Listed, Elements
    <2> QED BY <2>2, <2>6, <2>7
  <1> QED BY <1>1, <1>2

-----------------------------------------------------------------------------
Inv == TypeOK /\ DictInList

\* The invariant in terms of the predicates of the lemmas.
DictListed(d, L) == \A m \in DOMAIN d : Listed(L, d[m], m)

DictOK(d) == DOMAIN d \subseteq Member /\ d \in [DOMAIN d -> Score]

LEMMA InvParts == Inv <=> ListOK(sl) /\ DictOK(dict) /\ DictListed(dict, sl)
  BY DEF Inv, TypeOK, DictInList, ListOK, DictOK, DictListed, Listed, Holds

LEMMA InvPartsNext == Inv' <=> ListOK(sl') /\ DictOK(dict') /\ DictListed(dict', sl')
  BY DEF Inv, TypeOK, DictInList, ListOK, DictOK, DictListed, Listed, Holds, Elements

\* The insertion at the end of Insert and Update: d may lack the members Update
\* has just deleted.
LEMMA InsertIntoInv ==
    ASSUME NEW L, NEW d, ListOK(L), DictOK(d), DictListed(d, L),
           NEW s \in Score, NEW m \in Member, InsertInto(L, d, s, m)
    PROVE  Inv'
  <1>1. PICK lvl \in 1..MaxLevel, x \in Node \ DOMAIN L.node :
            sl' = InsertNode(L, s, m, lvl, x)
    BY DEF InsertInto
  <1>2. /\ ListOK(sl') /\ Listed(sl', s, m)
        /\ \A t, o : Listed(L, t, o) => Listed(sl', t, o)
    BY <1>1, InsertNodeListed
  <1>3. dict' = With(d, m, s)
    BY DEF InsertInto
  <1>4. DictOK(dict')
    BY <1>3 DEF DictOK, With
  <1>5. DictListed(dict', sl')
    BY <1>2, <1>3 DEF DictListed, With
  <1> QED BY <1>2, <1>4, <1>5, InvPartsNext

\* A deletion, of DelMem or inside Update, leaves the rest of the dictionary
\* in the list.
LEMMA DeleteParts ==
    ASSUME NEW m, ListOK(sl), DictOK(dict), DictListed(dict, sl)
    PROVE  /\ ListOK(DeleteMember(sl, dict[m], m))
           /\ DictOK(Without(dict, m))
           /\ DictListed(Without(dict, m), DeleteMember(sl, dict[m], m))
  <1>1. /\ ListOK(DeleteMember(sl, dict[m], m))
        /\ \A t, o : o # m /\ Listed(sl, t, o)
                        => Listed(DeleteMember(sl, dict[m], m), t, o)
    BY DeleteMemberListed
  <1>2. DictOK(Without(dict, m))
    BY DEF DictOK, Without
  <1>3. DictListed(Without(dict, m), DeleteMember(sl, dict[m], m))
    BY <1>1 DEF DictListed, Without
  <1> QED BY <1>1, <1>2, <1>3

LEMMA InitInv == Init => Inv
  BY LevelAssumption, AddressAssumption
     DEF Init, SLInit, EmptyList, Inv, TypeOK, DictInList, Elements, Fields

LEMMA NextInv == Inv /\ [Next]_vars => Inv'
  <1> SUFFICES ASSUME Inv, [Next]_vars PROVE Inv'
    OBVIOUS
  <1>0. ListOK(sl) /\ DictOK(dict) /\ DictListed(dict, sl)
    BY InvParts
  <1>u. ASSUME UNCHANGED vars PROVE Inv'
    BY <1>u DEF vars, Inv, TypeOK, DictInList, Holds, Elements
  <1>1. ASSUME NEW s \in Score, NEW m \in Member, Insert_(s, m) PROVE Inv'
    BY <1>0, <1>1, <1>u, InsertIntoInv DEF Insert_
  <1>2. ASSUME NEW s \in Score, NEW m \in Member, Update(s, m) PROVE Inv'
    <2>1. CASE InsertInto(sl, dict, s, m)
      BY <1>0, <2>1, InsertIntoInv
    <2>2. CASE InsertInto(DeleteMember(sl, dict[m], m), Without(dict, m), s, m)
      BY <1>0, <2>2, DeleteParts, InsertIntoInv
    <2> QED BY <1>2, <1>u, <2>1, <2>2 DEF Update
  <1>3. ASSUME NEW m \in Member, DelMem(m) PROVE Inv'
    <2>1. CASE UNCHANGED vars
      BY <2>1, <1>u
    <2>2. CASE sl' = DeleteMember(sl, dict[m], m) /\ dict' = Without(dict, m)
      BY <1>0, <2>2, DeleteParts, InvPartsNext
    <2> QED BY <1>3, <2>1, <2>2 DEF DelMem
  <1> QED BY <1>u, <1>1, <1>2, <1>3 DEF Next

\* The data of the set stays well typed under Insert, Update and DelMem: no
\* operation stores a node or a level outside its range.
THEOREM TypeCorrect == Spec => []TypeOK
  <1>1. Inv => TypeOK
    BY DEF Inv
  <1> QED BY <1>1, InitInv, NextInv, PTL DEF Spec

\* Whatever Delete misses among equal scores, Insert, Update and DelMem keep
\* every member of the dictionary in the list under its score.
THEOREM DictionaryListed == Spec => []DictInList
  <1>1. Inv => DictInList
    BY DEF Inv
  <1> QED BY <1>1, InitInv, NextInv, PTL DEF Spec

-----------------------------------------------------------------------------
(* What a save reads.                                                       *)

LEMMA EntriesAreList ==
    ASSUME NEW L, NEW pos, NEW N, Laid(L, pos, N)
    PROVE  Entries(L) = ListOf(L)
  <1> DEFINE D == DOMAIN L.node
             E == [score : Score, val : Member]
             list == ListOf(L)
             Rest(n) == SubSeq(list, pos[n] + 1, N)
             After(n) == Forward(L, n, 1)
             Body(f, n) == IF After(n) = NULL THEN << >> ELSE <<EntryOf(L, After(n))>> \o f[After(n)]
  <1>1. NodesOK(L) /\ PlacesOK(L, pos, N) /\ Linked(L, pos, N)
    BY LaidParts
  <1>2. /\ Len(list) = N
        /\ \A n \in Elements(L) : pos[n] \in 1..N /\ list[pos[n]] = EntryOf(L, n)
    BY <1>1, ListIs
  <1>3. list \in Seq(E)
    <2> HIDE DEF list
    <2> QED BY <1>1, ListIs DEF list
  <1>4. N \in Nat /\ head_ \in D /\ pos[head_] = 0 /\ \A n \in D : pos[n] \in 0..N
    BY <1>1 DEF PlacesOK, NodesOK
  <1>5. \A n \in D : /\ After(n) = NULL => pos[n] = N
                     /\ After(n) # NULL => After(n) \in Elements(L) /\ pos[After(n)] = pos[n] + 1
    BY <1>1, LowestLevel
  <1>6. Elements(L) \subseteq D
    BY DEF Elements
  <1> HIDE DEF list, E, D
  <1>7. ASSUME NEW n \in D
        PROVE  /\ After(n) = NULL => Rest(n) = << >>
               /\ After(n) # NULL => Rest(n) = <<EntryOf(L, After(n))>> \o Rest(After(n))
    <2>1. ASSUME After(n) = NULL PROVE Rest(n) = << >>
      <3>1. pos[n] + 1 \in Int /\ N \in Int /\ N < pos[n] + 1
        BY <2>1, <1>4, <1>5
      <3> QED BY <3>1, SubSeqEmpty
    <2>2. ASSUME After(n) # NULL PROVE Rest(n) = <<EntryOf(L, After(n))>> \o Rest(After(n))
      <3> DEFINE p == pos[n] + 1
      <3>1. p = pos[After(n)] /\ p \in 1..N /\ list[p] = EntryOf(L, After(n)) /\ N \in p..N
        BY <2>2, <1>2, <1>4, <1>5
      <3>2. SubSeq(list, p, N) = <<list[p]>> \o SubSeq(list, p + 1, N)
        <4> HIDE DEF p
        <4> QED BY <3>1, <1>2, <1>3, SubSeqRecursiveFirst
      <3> QED BY <3>1, <3>2
    <2> QED BY <2>1, <2>2
  <1> DEFINE g == [n \in D |-> Rest(n)]
  <1>8. g = [n \in D |-> Body(g, n)]
    <2>1. \A n \in D : Rest(n) = Body(g, n)
      <3> SUFFICES ASSUME NEW n \in D PROVE Rest(n) = Body(g, n)
        OBVIOUS
      <3>1. CASE After(n) = NULL
        <4> HIDE DEF Rest, After
        <4> QED BY <3>1, <1>7
      <3>2. CASE After(n) # NULL
        <4>1. g[After(n)] = Rest(After(n))
          <5>1. After(n) \in D
            BY <3>2, <1>5, <1>6
          <5> HIDE DEF Rest, After
          <5> QED BY <5>1
        <4> HIDE DEF Rest, After, g
        <4> QED BY <3>2, <4>1, <1>7
      <3> QED BY <3>1, <3>2
    <2> HIDE DEF Body, Rest
    <2>2. [n \in D |-> Rest(n)] = [n \in D |-> Body(g, n)]
      BY <2>1
    <2> QED BY <2>2
  <1> DEFINE after == CHOOSE h : h = [n \in D |-> Body(h, n)]
  <1>9. after = [n \in D |-> Body(after, n)]
    <2>1. \E h : h = [n \in D |-> Body(h, n)]
      <3> HIDE DEF g, Body
      <3> QED BY <1>8
    <2> HIDE DEF Body
    <2> QED BY <2>1
  <1>10. Entries(L) = after[head_]
    BY DEF Entries, EntryOf, D
  <1> HIDE DEF after
  <1> DEFINE S == {d \in Nat : \A n \in D : N - pos[n] = d => after[n] = Rest(n)}
  <1>11. ASSUME NEW n \in D, After(n) = NULL PROVE after[n] = Rest(n)
    <2>1. after[n] = Body(after, n)
      <3> HIDE DEF Body
      <3> QED BY <1>9
    <2> HIDE DEF Rest, After
    <2> QED BY <2>1, <1>7, <1>11
  <1>12. ASSUME NEW n \in D, After(n) # NULL, after[After(n)] = Rest(After(n))
         PROVE  after[n] = Rest(n)
    <2>1. after[n] = Body(after, n)
      <3> HIDE DEF Body
      <3> QED BY <1>9
    <2> HIDE DEF Rest, After
    <2> QED BY <2>1, <1>7, <1>12
  <1>13. 0 \in S
    <2> SUFFICES ASSUME NEW n \in D, N - pos[n] = 0 PROVE after[n] = Rest(n)
      OBVIOUS
    <2>1. After(n) = NULL
      <3> SUFFICES ASSUME After(n) # NULL PROVE FALSE
        OBVIOUS
      <3>1. pos[After(n)] = pos[n] + 1 /\ pos[After(n)] \in 0..N /\ pos[n] \in 0..N
        BY <1>4, <1>5, <1>6
      <3> QED BY <3>1, <1>4
    <2> QED BY <2>1, <1>11
  <1>14. ASSUME NEW d \in Nat, d \in S PROVE d + 1 \in S
    <2> SUFFICES ASSUME NEW n \in D, N - pos[n] = d + 1 PROVE after[n] = Rest(n)
      OBVIOUS
    <2>1. CASE After(n) = NULL
      BY <2>1, <1>11
    <2>2. CASE After(n) # NULL
      <3>1. After(n) \in D /\ pos[After(n)] = pos[n] + 1 /\ pos[n] \in 0..N
        BY <2>2, <1>4, <1>5, <1>6
      <3>2. N - pos[After(n)] = d
        BY <3>1, <1>4
      <3>3. after[After(n)] = Rest(After(n))
        BY <3>1, <3>2, <1>14
      <3> QED BY <2>2, <3>3, <1>12
    <2> QED BY <2>1, <2>2
  <1>15. \A d \in Nat : d \in S
    <2> HIDE DEF S
    <2> QED BY <1>13, <1>14, Upward
  <1>16. after[head_] = Rest(head_)
    <2>1. N - pos[head_] \in Nat
      BY <1>4
    <2> HIDE DEF Rest
    <2> QED BY <2>1, <1>4, <1>15
  <1>17. Rest(head_) = list
    <2>1. pos[head_] + 1 = 1
      BY <1>4
    <2> QED BY <2>1, <1>2, <1>3, SubSeqFull
  <1> QED
    BY <1>10, <1>16, <1>17 DEF list

-----------------------------------------------------------------------------
(* What the records hold.                                                   *)

\* FlattenSeq appends one sequence after the other.
LEMMA FlattenSteps ==
    ASSUME NEW S, NEW seqs \in Seq(Seq(S)), seqs # << >>
    PROVE  \E f : /\ FlattenSeq(seqs) = f[Len(seqs)]
                  /\ f[1] = seqs[1]
                  /\ \A i \in 2..Len(seqs) : f[i] = f[i - 1] \o seqs[i]
                  /\ \A i \in 1..Len(seqs) : f[i] \in Seq(S)
  <1> DEFINE n == Len(seqs)
             Body(f, i) == IF i = 1 THEN seqs[i] ELSE f[i - 1] \o seqs[i]
             Part(k, f) == f = [i \in 1..k |-> Body(f, i)]
             K == {k \in Nat : \E f : Part(k, f)}
  <1>1. n \in Nat \ {0} /\ \A i \in 1..n : seqs[i] \in Seq(S)
    BY EmptySeq, ElementOfSeq
  <1>2. 0 \in K
    <2>1. Part(0, [i \in 1..0 |-> seqs])
      OBVIOUS
    <2> QED BY <2>1
  <1>3. ASSUME NEW k \in Nat, k \in K PROVE k + 1 \in K
    <2>1. PICK f : Part(k, f)
      BY <1>3
    <2> DEFINE g == [i \in 1..k + 1 |-> IF i = k + 1 THEN Body(f, i) ELSE f[i]]
    <2>2. \A i \in 1..k + 1 : g[i] = Body(g, i)
      <3> SUFFICES ASSUME NEW i \in 1..k + 1 PROVE g[i] = Body(g, i)
        OBVIOUS
      <3>1. i # 1 => g[i - 1] = f[i - 1]
        OBVIOUS
      <3>2. CASE i = k + 1
        BY <3>1, <3>2
      <3>3. CASE i # k + 1
        <4>1. g[i] = f[i] /\ i \in 1..k
          BY <3>3
        <4>2. f[i] = Body(f, i)
          <5> HIDE DEF Body
          <5> QED BY <2>1, <4>1
        <4> QED BY <3>1, <4>1, <4>2
      <3> QED BY <3>2, <3>3
    <2>3. g = [i \in 1..k + 1 |-> g[i]]
      OBVIOUS
    <2>4. Part(k + 1, g)
      <3> HIDE DEF g
      <3>1. [i \in 1..k + 1 |-> g[i]] = [i \in 1..k + 1 |-> Body(g, i)]
        BY <2>2
      <3> QED BY <2>3, <3>1
    <2>5. \E h : Part(k + 1, h)
      <3> HIDE DEF g, Part
      <3> QED BY <2>4
    <2> HIDE DEF Part
    <2> QED BY <2>5
  <1>4. n \in K
    <2>1. \A k \in Nat : k \in K
      <3> HIDE DEF K
      <3> QED BY <1>2, <1>3, Upward
    <2> QED BY <1>1, <2>1
  <1> DEFINE flatten == CHOOSE f : Part(n, f)
  <1>5. Part(n, flatten)
    <2> HIDE DEF Part
    <2> QED BY <1>4
  <1>6. FlattenSeq(seqs) = flatten[n]
    BY <1>1 DEF FlattenSeq
  <1> HIDE DEF flatten
  <1>7. flatten[1] = seqs[1] /\ \A i \in 2..n : flatten[i] = flatten[i - 1] \o seqs[i]
    <2>1. \A i \in 1..n : flatten[i] = Body(flatten, i)
      <3> HIDE DEF Body
      <3> QED BY <1>5
    <2> HIDE DEF n
    <2>2. 1 \in 1..n /\ \A i \in 2..n : i \in 1..n /\ i # 1
      BY <1>1
    <2>3. flatten[1] = seqs[1]
      BY <2>1, <2>2
    <2>4. ASSUME NEW i \in 2..n PROVE flatten[i] = flatten[i - 1] \o seqs[i]
      <3>1. i # 1 /\ flatten[i] = Body(flatten, i)
        BY <2>1, <2>2
      <3> QED BY <3>1
    <2> QED BY <2>3, <2>4
  <1> DEFINE T == {k \in Nat : k + 1 \in 1..n => flatten[k + 1] \in Seq(S)}
  <1>8. 0 \in T
    BY <1>1, <1>7
  <1>9. ASSUME NEW k \in Nat, k \in T PROVE k + 1 \in T
    <2> SUFFICES ASSUME k + 2 \in 1..n PROVE flatten[k + 2] \in Seq(S)
      OBVIOUS
    <2>1. flatten[k + 1] \in Seq(S) /\ seqs[k + 2] \in Seq(S)
      BY <1>1, <1>9
    <2>2. flatten[k + 2] = flatten[k + 1] \o seqs[k + 2]
      <3>1. k + 2 \in 2..n /\ (k + 2) - 1 = k + 1
        BY <1>1
      <3> HIDE DEF n
      <3> QED BY <1>7, <3>1
    <2> QED BY <2>1, <2>2, ConcatProperties
  <1>10. \A k \in Nat : k \in T
    <2> HIDE DEF T
    <2> QED BY <1>8, <1>9, Upward
  <1>11. ASSUME NEW i \in 1..n PROVE flatten[i] \in Seq(S)
    <2>1. i - 1 \in Nat /\ (i - 1) + 1 = i
      BY <1>1
    <2>2. i - 1 \in T
      <3> HIDE DEF T
      <3> QED BY <1>10, <2>1
    <2> HIDE DEF n
    <2> QED BY <2>1, <2>2
  <1> QED BY <1>6, <1>7, <1>11

\* Where a KEY record ends.
Cut(N, k) == IF k * GROUP < N THEN k * GROUP ELSE N

RecordCount(N) == (N + GROUP - 1) \div GROUP

LEMMA Cuts ==
    ASSUME NEW N \in Nat
    PROVE  /\ RecordCount(N) \in Nat /\ (N = 0 <=> RecordCount(N) = 0)
           /\ Cut(N, 0) = 0 /\ Cut(N, RecordCount(N)) = N
           /\ \A k \in 1..RecordCount(N) :
                 /\ (k - 1) * GROUP = Cut(N, k - 1)
                 /\ Cut(N, k) = IF k * GROUP < N THEN k * GROUP ELSE N
                 /\ Cut(N, k - 1) \in 0..N /\ Cut(N, k) \in Cut(N, k - 1) + 1..N
  <1> DEFINE n == RecordCount(N)
  <1>1. GROUP \in Nat \ {0}
    BY GroupAssumption
  <1>2. n \in Nat /\ GROUP * n <= N + GROUP - 1 /\ N + GROUP - 1 < GROUP * n + GROUP
    BY <1>1 DEF RecordCount
  <1>3. GROUP * n = n * GROUP
    BY <1>1, <1>2
  <1>4. 0 * GROUP = 0
    BY <1>1
  <1>5. N = 0 => n = 0
    <2> SUFFICES ASSUME N = 0, n >= 1 PROVE FALSE
      BY <1>2
    <2>1. 1 * GROUP <= n * GROUP /\ 1 * GROUP = GROUP
      BY <1>1, <1>2
    <2> QED BY <1>1, <1>2, <1>3, <2>1
  <1>6. n = 0 => N = 0
    BY <1>1, <1>2, <1>3, <1>4
  <1>7. ASSUME NEW k \in 1..n
        PROVE  /\ (k - 1) * GROUP = Cut(N, k - 1)
               /\ Cut(N, k - 1) \in 0..N /\ Cut(N, k) \in Cut(N, k - 1) + 1..N
    <2>1. /\ k * GROUP \in Nat /\ (k - 1) * GROUP \in Nat
          /\ (k - 1) * GROUP = k * GROUP - GROUP /\ k * GROUP <= n * GROUP
      BY <1>1, <1>2
    <2>2. (k - 1) * GROUP < N
      BY <1>1, <1>2, <1>3, <2>1
    <2> DEFINE a == (k - 1) * GROUP
               b == k * GROUP
    <2>3. Cut(N, k - 1) = a /\ Cut(N, k) = IF b < N THEN b ELSE N
      BY <2>2 DEF Cut
    <2> HIDE DEF a, b
    <2>4. a \in Nat /\ b \in Nat /\ a = b - GROUP /\ a < N
      BY <2>1, <2>2 DEF a, b
    <2> QED BY <1>1, <2>3, <2>4 DEF a
  <1>8. Cut(N, 0) = 0
    BY <1>4 DEF Cut
  <1>9. Cut(N, n) = N
    <2>1. n * GROUP \in Nat /\ ~ (n * GROUP < N)
      BY <1>1, <1>2, <1>3
    <2> QED BY <2>1 DEF Cut
  <1> QED BY <1>2, <1>5, <1>6, <1>7, <1>8, <1>9 DEF Cut

LEMMA RecordsAreCuts ==
    ASSUME NEW S, NEW e \in Seq(S)
    PROVE  /\ Records(e) = [k \in 1..RecordCount(Len(e)) |->
                               SubSeq(e, Cut(Len(e), k - 1) + 1, Cut(Len(e), k))]
           /\ Records(e) \in Seq(Seq(S))
           /\ Len(Records(e)) = RecordCount(Len(e))
  <1> DEFINE N == Len(e)
             n == RecordCount(N)
             R == [k \in 1..n |-> SubSeq(e, Cut(N, k - 1) + 1, Cut(N, k))]
             Q(k) == SubSeq(e, (k - 1) * GROUP + 1,
                            IF k * GROUP < N THEN k * GROUP ELSE N)
  <1>1. N \in Nat /\ n \in Nat
    BY Cuts, LenProperties
  <1>2. \A k \in 1..n : /\ (k - 1) * GROUP = Cut(N, k - 1)
                        /\ Cut(N, k) = IF k * GROUP < N THEN k * GROUP ELSE N
                        /\ Cut(N, k - 1) \in 0..N /\ Cut(N, k) \in Cut(N, k - 1) + 1..N
    BY <1>1, Cuts
  <1>3. Records(e) = [k \in 1..n |-> Q(k)]
    BY DEF Records, RecordCount
  <1> HIDE DEF n
  <1>4. \A k \in 1..n : Q(k) = SubSeq(e, Cut(N, k - 1) + 1, Cut(N, k))
    BY <1>2
  <1>5. Records(e) = R
    <2> HIDE DEF Q
    <2> QED BY <1>3, <1>4
  <1>6. \A k \in 1..n : R[k] \in Seq(S)
    <2> SUFFICES ASSUME NEW k \in 1..n PROVE R[k] \in Seq(S)
      OBVIOUS
    <2> DEFINE a == Cut(N, k - 1) + 1
               b == Cut(N, k)
    <2>1. a \in 1..N + 1 /\ b \in 1..N
      <3>1. Cut(N, k - 1) \in 0..N /\ Cut(N, k) \in Cut(N, k - 1) + 1..N
        BY <1>2
      <3> QED BY <1>1, <3>1
    <2>2. R[k] = SubSeq(e, a, b)
      OBVIOUS
    <2> HIDE DEF a, b, R
    <2>3. a \in Int /\ b \in Int /\ \A i \in a..b : e[i] \in S
      BY <1>1, <2>1, ElementOfSeq
    <2>4. SubSeq(e, a, b) \in Seq(S)
      BY <2>3, SubSeqProperties
    <2> QED BY <2>2, <2>4
  <1>7. R \in [1..n -> Seq(S)]
    <2>1. R = [k \in 1..n |-> R[k]]
      OBVIOUS
    <2> HIDE DEF R
    <2> QED BY <1>6, <2>1
  <1>8. R \in Seq(Seq(S)) /\ Len(R) = n
    <2> HIDE DEF R
    <2> QED BY <1>1, <1>7
  <1> QED BY <1>5, <1>8 DEF n

\* s is what is read back of records that end at the first b entries of e: some
\* of these, in the same order; all of them if no record is missing.
ReadBack(e, s, b, complete) ==
    /\ \A k \in 1..Len(s) : \E j \in 1..b : s[k] = e[j]
    /\ \A j, k \in 1..Len(s) : j < k => s[j].score <= s[k].score
    /\ complete => s = SubSeq(e, 1, b)

SortedByScore(e) == \A j, k \in 1..Len(e) : j < k => e[j].score <= e[k].score

Scored == [score : Score, val : Member]

LEMMA ReadBackGrows ==
    ASSUME NEW e \in Seq(Scored), SortedByScore(e), NEW s \in Seq(Scored),
           NEW b \in 0..Len(e), NEW c \in b + 1..Len(e), NEW complete,
           ReadBack(e, s, b, complete), NEW r,
           \/ r = SubSeq(e, b + 1, c)
           \/ r = << >> /\ ~ complete
    PROVE  ReadBack(e, s \o r, c, complete)
  <1> DEFINE N == Len(e)
             t == s \o r
             n == Len(s)
  <1>1. N \in Nat /\ n \in Nat /\ b \in Nat /\ c \in Nat /\ b < c /\ c <= N
    BY LenProperties
  <1>2. \A i \in 1..N : e[i] \in Scored
    BY ElementOfSeq
  <1>3. \A j \in 1..N, k \in 1..N : j <= k => e[j].score <= e[k].score
    <2> SUFFICES ASSUME NEW j \in 1..N, NEW k \in 1..N, j <= k PROVE e[j].score <= e[k].score
      OBVIOUS
    <2>1. CASE j = k
      <3>1. e[k].score \in Int
        BY <1>2, ScoreAssumption DEF Scored
      <3> QED BY <2>1, <3>1
    <2>2. CASE j < k
      BY <2>2 DEF SortedByScore
    <2> QED BY <1>1, <2>1, <2>2
  <1>4. CASE r = << >> /\ ~ complete
    <2>1. t = s
      BY <1>4, ConcatEmptySeq
    <2>2. \A k \in 1..n : \E j \in 1..c : s[k] = e[j]
      <3>1. \A j \in 1..b : j \in 1..c
        BY <1>1
      <3> QED BY <3>1 DEF ReadBack
    <2> HIDE DEF t
    <2>3. ReadBack(e, t, c, complete)
      BY <1>4, <2>1, <2>2 DEF ReadBack
    <2> QED BY <2>3 DEF t
  <1>5. CASE r = SubSeq(e, b + 1, c)
    <2>1. /\ r \in Seq(Scored) /\ Len(r) = c - b
          /\ \A i \in 1..c - b : r[i] = e[b + i]
      <3>1. b + 1 \in Int /\ c \in Int /\ \A i \in b + 1..c : e[i] \in Scored
        BY <1>1, <1>2
      <3>2. /\ SubSeq(e, b + 1, c) \in Seq(Scored)
            /\ Len(SubSeq(e, b + 1, c)) = IF b + 1 <= c THEN c - (b + 1) + 1 ELSE 0
            /\ \A i \in 1..c - (b + 1) + 1 : SubSeq(e, b + 1, c)[i] = e[(b + 1) + i - 1]
        BY <3>1, SubSeqProperties
      <3>3. /\ r \in Seq(Scored) /\ Len(r) = c - (b + 1) + 1
            /\ \A i \in 1..c - (b + 1) + 1 : r[i] = e[(b + 1) + i - 1]
        BY <1>1, <1>5, <3>2
      <3> HIDE <1>5
      <3> QED BY <1>1, <3>3
    <2> HIDE <1>5
    <2>2. /\ t \in Seq(Scored) /\ Len(t) = n + (c - b)
          /\ \A k \in 1..n + (c - b) : t[k] = IF k <= n THEN s[k] ELSE r[k - n]
      <3>1. /\ t \in Seq(Scored) /\ Len(t) = n + Len(r)
            /\ \A k \in 1..n + Len(r) : t[k] = IF k <= n THEN s[k] ELSE r[k - n]
        BY <2>1, ConcatProperties
      <3> HIDE DEF t, n
      <3> QED BY <2>1, <3>1
    <2> HIDE DEF t
    <2>3. \A k \in 1..n : t[k] = s[k] /\ \E j \in 1..b : t[k] = e[j]
      <3>1. \A k \in 1..n : t[k] = s[k]
        <4> SUFFICES ASSUME NEW k \in 1..n PROVE t[k] = s[k]
          OBVIOUS
        <4> HIDE DEF n, N
        <4>1. k \in 1..n + (c - b) /\ k <= n
          BY <1>1
        <4> QED BY <2>2, <4>1
      <3>2. \A k \in 1..n : \E j \in 1..b : s[k] = e[j]
        BY DEF ReadBack
      <3> QED BY <3>1, <3>2
    <2>4. \A k \in n + 1..n + (c - b) : t[k] = e[b + (k - n)] /\ b + (k - n) \in b + 1..c
      <3> SUFFICES ASSUME NEW k \in n + 1..n + (c - b)
                   PROVE  t[k] = e[b + (k - n)] /\ b + (k - n) \in b + 1..c
        OBVIOUS
      <3>1. /\ k \in 1..n + (c - b) /\ ~ (k <= n) /\ k - n \in 1..c - b
            /\ b + (k - n) \in b + 1..c
        BY <1>1
      <3>2. t[k] = r[k - n]
        BY <2>2, <3>1
      <3> QED BY <2>1, <3>1, <3>2
    <2>5. \A k \in 1..Len(t) : \E j \in 1..c : t[k] = e[j]
      <3> SUFFICES ASSUME NEW k \in 1..n + (c - b) PROVE \E j \in 1..c : t[k] = e[j]
        BY <2>2
      <3>1. CASE k \in 1..n
        <4>1. \A j \in 1..b : j \in 1..c
          BY <1>1
        <4> QED BY <3>1, <4>1, <2>3
      <3>2. CASE k \in n + 1..n + (c - b)
        <4>1. b + (k - n) \in 1..c
          BY <1>1, <3>2
        <4> QED BY <3>2, <4>1, <2>4
      <3> QED BY <1>1, <3>1, <3>2
    <2>6. \A j, k \in 1..Len(t) : j < k => t[j].score <= t[k].score
      <3> SUFFICES ASSUME NEW j \in 1..n + (c - b), NEW k \in 1..n + (c - b), j < k
                   PROVE  t[j].score <= t[k].score
        BY <2>2
      <3>1. CASE k \in 1..n
        <4>1. j \in 1..n
          BY <1>1, <3>1
        <4>2. s[j].score <= s[k].score
          BY <3>1, <4>1 DEF ReadBack
        <4> QED BY <2>3, <3>1, <4>1, <4>2
      <3>2. CASE j \in 1..n /\ k \in n + 1..n + (c - b)
        <4>1. PICK i \in 1..b : t[j] = e[i]
          BY <2>3, <3>2
        <4>2. t[k] = e[b + (k - n)] /\ b + (k - n) \in b + 1..c
          BY <2>4, <3>2
        <4>3. i \in 1..N /\ b + (k - n) \in 1..N /\ i <= b + (k - n)
          <5> DEFINE p == b + (k - n)
          <5>1. p \in b + 1..c
            BY <4>2
          <5> HIDE DEF n, N, p
          <5>2. i \in 1..N /\ p \in 1..N /\ i <= p
            BY <1>1, <5>1
          <5> QED BY <5>2 DEF p
        <4>4. e[i].score <= e[b + (k - n)].score
          BY <1>3, <4>3
        <4> QED BY <4>1, <4>2, <4>4
      <3>3. CASE j \in n + 1..n + (c - b)
        <4>1. k \in n + 1..n + (c - b)
          BY <1>1, <3>3
        <4>2. t[k] = e[b + (k - n)] /\ t[j] = e[b + (j - n)]
          BY <2>4, <3>3, <4>1
        <4>3. /\ b + (j - n) \in 1..N /\ b + (k - n) \in 1..N
              /\ b + (j - n) <= b + (k - n)
          BY <1>1, <3>3, <4>1
        <4>4. e[b + (j - n)].score <= e[b + (k - n)].score
          BY <1>3, <4>3
        <4> QED BY <4>2, <4>4
      <3> QED BY <1>1, <3>1, <3>2, <3>3
    <2>7. complete => t = SubSeq(e, 1, c)
      <3> SUFFICES ASSUME complete PROVE t = SubSeq(e, 1, c)
        OBVIOUS
      <3>1. s = SubSeq(e, 1, b) /\ r = SubSeq(e, b + 1, c)
        BY <1>5, ConcatEmptySeq DEF ReadBack
      <3>2. 1 \in 1..N + 1 /\ b \in 1 - 1..N /\ c \in b..N
        BY <1>1
      <3>3. SubSeq(e, 1, b) \o SubSeq(e, b + 1, c) = SubSeq(e, 1, c)
        BY <3>2, ConcatAdjacentSubSeq
      <3> QED BY <3>1, <3>3 DEF t
    <2>8. ReadBack(e, t, c, complete)
      BY <2>5, <2>6, <2>7 DEF ReadBack
    <2> QED BY <2>8 DEF t
  <1> QED BY <1>4, <1>5

\* What is read back of a file that the first n records of e were written to,
\* each or not.
LEMMA FlattenReadsBack ==
    ASSUME NEW e \in Seq(Scored), SortedByScore(e), NEW keys,
           NEW n \in 0..RecordCount(Len(e)),
           keys = [k \in 1..n |-> keys[k]],
           \A k \in 1..n : keys[k] \in {Records(e)[k], << >>}
    PROVE  /\ keys \in Seq(Seq(Scored)) /\ FlattenSeq(keys) \in Seq(Scored)
           /\ ReadBack(e, FlattenSeq(keys), Cut(Len(e), n), keys = Records(e))
  <1> DEFINE N == Len(e)
             c == RecordCount(N)
             R == Records(e)
             complete == keys = R
  <1>0. c \in Nat /\ n \in Nat /\ \A k \in 1..n : k \in 1..c
    <2>1. N \in Nat
      BY LenProperties
    <2>2. c \in Nat
      BY <2>1, Cuts
    <2>3. n \in 0..c
      OBVIOUS
    <2> HIDE DEF c
    <2> QED BY <2>2, <2>3
  <1>1. \A k \in 1..n : R[k] \in Seq(Scored)
    <2>1. R \in Seq(Seq(Scored)) /\ Len(R) = c
      BY RecordsAreCuts
    <2> HIDE DEF R, c
    <2> QED BY <1>0, <2>1, LenProperties, ElementOfSeq
  <1>2. R = [k \in 1..c |-> SubSeq(e, Cut(N, k - 1) + 1, Cut(N, k))]
    BY RecordsAreCuts
  <1>3. /\ N \in Nat /\ n \in Nat /\ Cut(N, 0) = 0
        /\ \A k \in 1..n : /\ Cut(N, k - 1) \in 0..N
                           /\ Cut(N, k) \in Cut(N, k - 1) + 1..N
    <2>1. N \in Nat
      BY LenProperties
    <2>2. /\ Cut(N, 0) = 0
          /\ \A k \in 1..c : /\ Cut(N, k - 1) \in 0..N
                             /\ Cut(N, k) \in Cut(N, k - 1) + 1..N
      BY <2>1, Cuts
    <2> HIDE DEF c, N
    <2> QED BY <1>0, <2>1, <2>2
  <1>4. \A k \in 1..n : R[k] = SubSeq(e, Cut(N, k - 1) + 1, Cut(N, k))
    <2> HIDE DEF R, c, N
    <2> QED BY <1>0, <1>2
  <1> HIDE DEF R, c
  <1>5. \A k \in 1..n : keys[k] \in {R[k], << >>}
    BY <1>1 DEF R
  <1>6. \A k \in 1..n : keys[k] \in Seq(Scored)
    BY <1>1, <1>5, EmptySeq
  <1>7. keys \in Seq(Seq(Scored)) /\ Len(keys) = n /\ DOMAIN keys = 1..n
    <2>1. keys = [k \in 1..n |-> keys[k]]
      BY <1>1 DEF R
    <2>2. keys \in [1..n -> Seq(Scored)]
      BY <1>6, <2>1
    <2> QED BY <1>3, <2>2
  <1>8. \A k \in 1..n : \/ keys[k] = R[k]
                        \/ keys[k] = << >> /\ ~ complete
    BY <1>5
  <1>9. ReadBack(e, << >>, 0, complete)
    <2>1. SubSeq(e, 1, 0) = << >>
      BY SubSeqEmpty
    <2>2. Len(<< >>) = 0
      OBVIOUS
    <2> QED BY <2>1, <2>2 DEF ReadBack
  <1> HIDE DEF complete
  <1>10. CASE n = 0
    <2>1. keys = << >>
      BY <1>7, <1>10, EmptySeq
    <2>2. FlattenSeq(keys) = << >>
      BY <2>1 DEF FlattenSeq
    <2>3. ReadBack(e, << >>, Cut(N, n), complete) /\ << >> \in Seq(Scored)
      BY <1>3, <1>9, <1>10, EmptySeq
    <2> QED BY <1>7, <2>2, <2>3 DEF complete, R
  <1>11. CASE n # 0
    <2>1. keys # << >>
      BY <1>7, <1>11
    <2>2. PICK f : /\ FlattenSeq(keys) = f[n]
                   /\ f[1] = keys[1]
                   /\ \A i \in 2..n : f[i] = f[i - 1] \o keys[i]
                   /\ \A i \in 1..n : f[i] \in Seq(Scored)
      BY <1>7, <2>1, FlattenSteps
    <2>3. ASSUME NEW s \in Seq(Scored), NEW k \in 1..n,
                 ReadBack(e, s, Cut(N, k - 1), complete)
          PROVE  ReadBack(e, s \o keys[k], Cut(N, k), complete)
      <3>1. Cut(N, k - 1) \in 0..N /\ Cut(N, k) \in Cut(N, k - 1) + 1..N
        BY <1>3
      <3>2. \/ keys[k] = SubSeq(e, Cut(N, k - 1) + 1, Cut(N, k))
            \/ keys[k] = << >> /\ ~ complete
        BY <1>4, <1>8
      <3> QED BY <2>3, <3>1, <3>2, ReadBackGrows
    <2> DEFINE T == {k \in Nat : k + 1 \in 1..n => ReadBack(e, f[k + 1], Cut(N, k + 1), complete)}
    <2>4. 0 \in T
      <3>1. 1 \in 1..n /\ 1 - 1 = 0
        BY <1>3, <1>11
      <3>2. ReadBack(e, << >> \o keys[1], Cut(N, 1), complete)
        BY <1>3, <1>9, <2>3, <3>1, EmptySeq, ZenonT(30)
      <3>3. << >> \o keys[1] = keys[1]
        BY <1>6, <3>1, ConcatEmptySeq
      <3>4. ReadBack(e, f[1], Cut(N, 1), complete)
        BY <2>2, <3>2, <3>3
      <3> QED BY <3>4
    <2>5. ASSUME NEW k \in Nat, k \in T PROVE k + 1 \in T
      <3> SUFFICES ASSUME k + 2 \in 1..n
                   PROVE  ReadBack(e, f[k + 2], Cut(N, k + 2), complete)
        OBVIOUS
      <3>1. /\ k + 1 \in 1..n /\ k + 2 \in 2..n
            /\ (k + 2) - 1 = k + 1
        BY <1>3
      <3>2. f[k + 1] \in Seq(Scored) /\ ReadBack(e, f[k + 1], Cut(N, k + 1), complete)
        BY <2>2, <2>5, <3>1
      <3>3. f[k + 2] = f[k + 1] \o keys[k + 2]
        BY <2>2, <3>1
      <3>4. ReadBack(e, f[k + 1] \o keys[k + 2], Cut(N, k + 2), complete)
        BY <2>3, <3>1, <3>2
      <3> QED BY <3>3, <3>4
    <2>6. \A k \in Nat : k \in T
      <3> HIDE DEF T
      <3> QED BY <2>4, <2>5, Upward
    <2>7. n - 1 \in Nat /\ (n - 1) + 1 = n /\ n \in 1..n
      BY <1>3, <1>11
    <2>8. n - 1 \in T
      <3> HIDE DEF T
      <3> QED BY <2>6, <2>7
    <2>9. ReadBack(e, f[n], Cut(N, n), complete)
      <3>1. ReadBack(e, f[(n - 1) + 1], Cut(N, (n - 1) + 1), complete)
        BY <2>7, <2>8
      <3> QED BY <2>7, <3>1
    <2>10. f[n] \in Seq(Scored)
      BY <2>2, <2>7
    <2> QED BY <1>3, <1>7, <2>2, <2>9, <2>10 DEF complete, R
  <1> QED BY <1>10, <1>11

-----------------------------------------------------------------------------
(* The list under the updates of a sorted set.                              *)

\* The list holds the entries of the dictionary d and nothing else, each once.
Clean(d, L) ==
    /\ Distinct(L)
    /\ \A n \in Elements(L) : L.node[n].val \in DOMAIN d /\ d[L.node[n].val] = L.node[n].score

LEMMA InsertIntoKeeps ==
    ASSUME NEW L, NEW d, WellLaid(L), NEW s \in Score, NEW m \in Member, InsertInto(L, d, s, m)
    PROVE  /\ WellLaid(sl')
           /\ Clean(d, L) /\ m \notin DOMAIN d => Clean(dict', sl')
  <1>1. PICK pos, N : Laid(L, pos, N)
    BY DEF WellLaid
  <1>2. PICK lvl \in 1..MaxLevel, x \in Node \ DOMAIN L.node :
            sl' = InsertNode(L, s, m, lvl, x)
    BY DEF InsertInto
  <1>3. dict' = With(d, m, s)
    BY DEF InsertInto
  <1>4. WellLaid(sl')
    <2> DEFINE K == pos[Predecessors(L, s, m, lvl)[1].node]
    <2>1. Laid(InsertNode(L, s, m, lvl, x), Opened(L, pos, x, K), N + 1)
      BY <1>1, InsertKeepsLaid
    <2> QED BY <1>2, <2>1 DEF WellLaid
  <1>5. ASSUME Clean(d, L), m \notin DOMAIN d PROVE Clean(dict', sl')
    <2>1. /\ DOMAIN sl'.node = DOMAIN L.node \cup {x}
          /\ sl'.node[x].score = s /\ sl'.node[x].val = m
          /\ \A n \in DOMAIN L.node \ {x} : /\ sl'.node[n].score = L.node[n].score
                                            /\ sl'.node[n].val = L.node[n].val
      BY <1>2, InsertNodeFields
    <2>2. Elements(sl') = Elements(L) \cup {x}
      BY <2>1, AddressAssumption DEF Elements
    <2>3. x \notin Elements(L) /\ \A n \in Elements(L) : n \in DOMAIN L.node \ {x}
      BY DEF Elements
    <2>4. \A n \in Elements(L) : L.node[n].val # m
      BY <1>5 DEF Clean
    <2> DEFINE v(n) == sl'.node[n].val
    <2>5. \A n \in Elements(L) : /\ v(n) = L.node[n].val /\ sl'.node[n].score = L.node[n].score
                                 /\ v(n) # m
      BY <2>1, <2>3, <2>4
    <2>6. v(x) = m /\ sl'.node[x].score = s
      BY <2>1
    <2>7. \A n, o \in Elements(L) : v(n) = v(o) => n = o
      BY <1>5, <2>5 DEF Clean, Distinct
    <2>8. \A n, o \in Elements(sl') : v(n) = v(o) => n = o
      <3> HIDE DEF v
      <3> QED BY <2>2, <2>5, <2>6, <2>7
    <2>9. \A n \in Elements(sl') : v(n) \in DOMAIN dict' /\ dict'[v(n)] = sl'.node[n].score
      <3>1. /\ DOMAIN dict' = DOMAIN d \cup {m} /\ dict'[m] = s
            /\ \A o \in DOMAIN d \ {m} : dict'[o] = d[o]
        BY <1>3 DEF With
      <3>2. \A n \in Elements(L) : v(n) \in DOMAIN d /\ d[v(n)] = sl'.node[n].score
        BY <1>5, <2>5 DEF Clean
      <3> HIDE DEF v
      <3> QED BY <2>2, <2>5, <2>6, <3>1, <3>2
    <2> QED BY <2>8, <2>9 DEF Clean, Distinct
  <1> QED BY <1>4, <1>5

\* Without ties Delete finds its node, so that nothing is left behind.
LEMMA DeleteKeeps ==
    ASSUME WellLaid(sl), NEW m
    PROVE  LET R == DeleteMember(sl, dict[m], m) IN
           /\ WellLaid(R)
           /\ /\ Clean(dict, sl) /\ ~ Ties(dict) /\ m \in DOMAIN dict
              /\ DictListed(dict, sl)
              => Clean(Without(dict, m), R)
  <1> DEFINE s == dict[m]
             R == DeleteMember(sl, s, m)
             x == Target(sl, s, m)
  <1>1. PICK pos, N : Laid(sl, pos, N)
    BY DEF WellLaid
  <1>2. WellLaid(R)
    <2>1. \/ R = sl
          \/ Laid(R, Closed(sl, pos, x), N - 1)
      BY <1>1, DeleteMemberKeepsLaid
    <2> QED BY <2>1 DEF WellLaid
  <1>3. ASSUME Clean(dict, sl), ~ Ties(dict), m \in DOMAIN dict, DictListed(dict, sl)
        PROVE  Clean(Without(dict, m), R)
    <2>1. PICK n \in Elements(sl) : sl.node[n].score = s /\ sl.node[n].val = m
      BY <1>3 DEF DictListed, Listed
    <2>2. ASSUME x = NULL PROVE FALSE
      <3>1. \E o \in Elements(sl) : sl.node[o].score = s /\ sl.node[o].val # m
        <4>1. Distinct(sl)
          BY <1>3 DEF Clean
        <4> HIDE DEF s
        <4> QED BY <1>1, <2>1, <2>2, <4>1, TargetMissed
      <3>2. PICK o \in Elements(sl) : sl.node[o].score = s /\ sl.node[o].val # m
        BY <3>1
      <3>3. sl.node[o].val \in DOMAIN dict /\ dict[sl.node[o].val] = dict[m]
        BY <1>3, <3>2 DEF Clean
      <3> QED BY <1>3, <3>2, <3>3 DEF Ties
    <2>3. /\ x \in Elements(sl) /\ sl.node[x].val = m
      BY <2>2, PathOver, <1>1
    <2>4. R = DeleteNode(sl, x, PathTo(sl, s, m))
      BY <2>2 DEF DeleteMember
    <2>5. sl.level \in 1..MaxLevel /\ head_ # x
      BY <1>1, <2>3 DEF Laid, NodesOK, Elements
    <2>6. /\ DOMAIN R.node = DOMAIN sl.node \ {x}
          /\ \A o \in DOMAIN sl.node \ {x} : /\ R.node[o].score = sl.node[o].score
                                             /\ R.node[o].val = sl.node[o].val
      <3> HIDE DEF R, x, s
      <3> QED BY <2>4, <2>5, DeleteNodeFields
    <2> HIDE DEF R, x, s
    <2>7. \A o \in Elements(R) : /\ o \in Elements(sl) /\ o # x
                                 /\ R.node[o].score = sl.node[o].score
                                 /\ R.node[o].val = sl.node[o].val
      BY <2>6 DEF Elements
    <2>8. Distinct(R)
      BY <1>3, <2>7 DEF Clean, Distinct
    <2>9. \A o \in Elements(R) : R.node[o].val # m
      BY <1>3, <2>3, <2>7 DEF Clean, Distinct
    <2>10. \A o \in Elements(R) : /\ R.node[o].val \in DOMAIN Without(dict, m)
                                  /\ Without(dict, m)[R.node[o].val] = R.node[o].score
      BY <1>3, <2>7, <2>9 DEF Clean, Without
    <2> QED BY <2>8, <2>10 DEF Clean
  <1> QED BY <1>2, <1>3

LEMMA InsertKeeps ==
    ASSUME Inv, WellLaid(sl), NEW s \in Score, NEW m \in Member, Insert_(s, m)
    PROVE  /\ Inv' /\ WellLaid(sl')
           /\ Clean(dict, sl) => Clean(dict', sl')
  <1>1. Inv'
    BY NextInv DEF Next
  <1>2. CASE UNCHANGED vars
    BY <1>1, <1>2 DEF vars
  <1>3. CASE m \notin DOMAIN dict /\ InsertInto(sl, dict, s, m)
    BY <1>1, <1>3, InsertIntoKeeps
  <1> QED BY <1>2, <1>3 DEF Insert_

LEMMA UpdateKeeps ==
    ASSUME Inv, WellLaid(sl), NEW s \in Score, NEW m \in Member, Update(s, m)
    PROVE  /\ Inv' /\ WellLaid(sl')
           /\ Clean(dict, sl) /\ ~ Ties(dict) => Clean(dict', sl')
  <1>1. Inv'
    BY NextInv DEF Next
  <1>2. DictListed(dict, sl)
    BY InvParts
  <1>3. CASE UNCHANGED vars
    BY <1>1, <1>3 DEF vars
  <1>4. CASE m \notin DOMAIN dict /\ InsertInto(sl, dict, s, m)
    BY <1>1, <1>4, InsertIntoKeeps
  <1>5. CASE /\ m \in DOMAIN dict
             /\ InsertInto(DeleteMember(sl, dict[m], m), Without(dict, m), s, m)
    <2> DEFINE L == DeleteMember(sl, dict[m], m)
               d == Without(dict, m)
    <2>1. /\ WellLaid(L)
          /\ Clean(dict, sl) /\ ~ Ties(dict) => Clean(d, L)
      BY <1>2, <1>5, DeleteKeeps
    <2>2. m \notin DOMAIN d
      BY DEF Without
    <2> HIDE DEF L, d
    <2>3. InsertInto(L, d, s, m)
      BY <1>5 DEF L, d
    <2> QED BY <1>1, <2>1, <2>2, <2>3, InsertIntoKeeps
  <1> QED BY <1>3, <1>4, <1>5 DEF Update

LEMMA DelMemKeeps ==
    ASSUME Inv, WellLaid(sl), NEW m \in Member, DelMem(m)
    PROVE  /\ Inv' /\ WellLaid(sl')
           /\ Clean(dict, sl) /\ ~ Ties(dict) => Clean(dict', sl')
  <1>1. Inv'
    BY NextInv DEF Next
  <1>2. DictListed(dict, sl)
    BY InvParts
  <1>3. CASE UNCHANGED vars
    BY <1>1, <1>3 DEF vars
  <1>4. CASE /\ m \in DOMAIN dict
             /\ sl' = DeleteMember(sl, dict[m], m) /\ dict' = Without(dict, m)
    BY <1>1, <1>2, <1>4, DeleteKeeps
  <1> QED BY <1>3, <1>4 DEF DelMem

-----------------------------------------------------------------------------
(* Loading.                                                                 *)

LEMMA ListTyped ==
    ASSUME NEW L, NEW pos, NEW N, NodesOK(L), PlacesOK(L, pos, N), Linked(L, pos, N)
    PROVE  /\ ListOf(L) \in Seq(Scored) /\ Len(ListOf(L)) = N /\ DOMAIN ListOf(L) = 1..N
           /\ N \in Nat
  <1> DEFINE list == ListOf(L)
  <1>1. list \in Seq([score : Score, val : Member])
    <2> HIDE DEF list
    <2> QED BY ListIs DEF list
  <1>2. Len(list) = N /\ DOMAIN list = 1..N
    BY ListIs
  <1>3. N \in Nat
    BY DEF PlacesOK
  <1> HIDE DEF list
  <1>4. list \in Seq(Scored)
    BY <1>1 DEF Scored
  <1> QED BY <1>2, <1>3, <1>4 DEF list

\* An entry whose score nothing in the list exceeds goes to the end.
LEMMA InsertAtEnd ==
    ASSUME WellLaid(sl), NEW s \in Score, NEW m \in Member,
           Clean(dict, sl), m \notin DOMAIN dict, InsertInto(sl, dict, s, m),
           \A n \in Elements(sl) : sl.node[n].score <= s
    PROVE  /\ ListOf(sl) \in Seq(Scored) /\ ListOf(sl') \in Seq(Scored)
           /\ Len(ListOf(sl')) = Len(ListOf(sl)) + 1
           /\ \A i \in 1..Len(ListOf(sl)) : ListOf(sl')[i] = ListOf(sl)[i]
           /\ ListOf(sl')[Len(ListOf(sl)) + 1] = [score |-> s, val |-> m]
  <1> DEFINE list == ListOf(sl)
             e == [score |-> s, val |-> m]
             N == Len(list)
  <1>1. PICK pos, M : Laid(sl, pos, M)
    BY DEF WellLaid
  <1>2. PICK lvl \in 1..MaxLevel, x \in Node \ DOMAIN sl.node :
            sl' = InsertNode(sl, s, m, lvl, x)
    BY DEF InsertInto
  <1>3. NodesOK(sl) /\ PlacesOK(sl, pos, M) /\ Linked(sl, pos, M)
    BY <1>1, LaidParts
  <1>4. list \in Seq(Scored) /\ N = M /\ DOMAIN list = 1..N /\ N \in Nat
    <2> HIDE DEF list
    <2> QED BY <1>3, ListTyped DEF list
  <1>5. ASSUME NEW k \in 1..N PROVE list[k].score <= s
    <2>1. PICK n \in Elements(sl) : pos[n] = k
      BY <1>3, <1>4, ListIs
    <2>2. list[k] = EntryOf(sl, n)
      BY <1>3, <2>1, ListIs
    <2>3. list[k].score = sl.node[n].score
      BY <2>2 DEF EntryOf
    <2> QED BY <2>3
  <1>6. m \notin Members(sl)
    BY DEF Clean, Members
  <1>7. PICK k \in 1..N + 1 : /\ \A i \in DOMAIN list : list[i].score <= s <=> i < k
                              /\ ListOf(InsertNode(sl, s, m, lvl, x)) = InsertAt(list, k, e)
    BY <1>1, <1>6, InsertLists
  <1> HIDE DEF list, N, e
  <1>8. k = N + 1
    <2>1. k \in 1..N => k < k
      BY <1>4, <1>5, <1>7
    <2> QED BY <1>4, <2>1
  <1>9. e \in Scored
    BY DEF e, Scored
  <1>10. InsertAt(list, k, e) = [j \in 1..N + 1 |-> IF j < k THEN list[j] ELSE IF j = k THEN e
                                                    ELSE list[j - 1]]
    BY <1>4, <1>9, InsertAtEntries DEF N
  <1>11. ListOf(sl') = [j \in 1..N + 1 |-> IF j < N + 1 THEN list[j] ELSE e]
    <2>1. ListOf(sl') = InsertAt(list, k, e)
      BY <1>2, <1>7
    <2>2. \A j \in 1..N + 1 : (IF j < k THEN list[j] ELSE IF j = k THEN e ELSE list[j - 1])
                                = IF j < N + 1 THEN list[j] ELSE e
      BY <1>4, <1>8
    <2> QED BY <1>10, <2>1, <2>2
  <1> DEFINE q == [j \in 1..N + 1 |-> IF j < N + 1 THEN list[j] ELSE e]
  <1>12. \A j \in 1..N + 1 : q[j] \in Scored
    BY <1>4, <1>9
  <1>13. q \in Seq(Scored) /\ Len(q) = N + 1
    <2>1. q = [j \in 1..N + 1 |-> q[j]]
      OBVIOUS
    <2> HIDE DEF q
    <2>2. q \in [1..N + 1 -> Scored]
      BY <1>12, <2>1
    <2> QED BY <1>4, <2>2
  <1>14. \A i \in 1..N : q[i] = list[i]
    BY <1>4
  <1>15. q[N + 1] = e
    BY <1>4
  <1> HIDE DEF q
  <1>16. ListOf(sl') = q
    BY <1>11 DEF q
  <1> QED BY <1>4, <1>13, <1>14, <1>15, <1>16 DEF list, N, e

\* Where a member stands for the first time.
Firsts(S) == {k \in DOMAIN S : \A j \in 1..k - 1 : S[j].val # S[k].val}

LEMMA CountFirsts ==
    ASSUME NEW S \in Seq(Scored), NEW c \in 0..Len(S) - 1
    PROVE  /\ Cardinality(Firsts(S) \cap (1..c)) \in Nat
           /\ c + 1 \in Firsts(S) =>
                 /\ Firsts(S) \cap (1..c + 1) = (Firsts(S) \cap (1..c)) \cup {c + 1}
                 /\ Cardinality(Firsts(S) \cap (1..c + 1))
                       = Cardinality(Firsts(S) \cap (1..c)) + 1
           /\ c + 1 \notin Firsts(S) => Firsts(S) \cap (1..c + 1) = Firsts(S) \cap (1..c)
  <1> DEFINE A == Firsts(S) \cap (1..c)
  <1>1. c \in Nat
    BY LenProperties
  <1>2. IsFiniteSet(A)
    <2>1. IsFiniteSet(1..c)
      BY <1>1, FS_Interval
    <2> QED BY <2>1, FS_Subset
  <1>3. Cardinality(A) \in Nat
    BY <1>2, FS_CardinalityType
  <1>4. c + 1 \notin A
    BY <1>1
  <1>5. Cardinality(A \cup {c + 1}) = Cardinality(A) + 1
    <2> HIDE DEF A
    <2> QED BY <1>2, <1>4, FS_AddElement
  <1>6. 1..c + 1 = (1..c) \cup {c + 1}
    BY <1>1
  <1> QED BY <1>3, <1>5, <1>6

\* The first c entries of S have been loaded into d and L, rest is to come.
Taken(S, c, rest, d, L) ==
    /\ rest = SubSeq(S, c + 1, Len(S))
    /\ \A k \in 1..c : S[k].val \in DOMAIN d
    /\ \A m \in DOMAIN d : \E k \in 1..c : S[k] = [score |-> d[m], val |-> m]
    /\ Len(ListOf(L)) = Cardinality(Firsts(S) \cap (1..c))
    /\ \A k \in Firsts(S) \cap (1..c) :
          ListOf(L)[Cardinality(Firsts(S) \cap (1..k))] = S[k]

LEMMA TakeOne ==
    ASSUME Inv, WellLaid(sl), Clean(dict, sl), NEW S \in Seq(Scored), SortedByScore(S),
           NEW c \in 0..Len(S), Taken(S, c, todo, dict, sl), LoadEntry
    PROVE  c + 1 \in 0..Len(S) /\ Taken(S, c + 1, todo', dict', sl')
  <1> DEFINE s == Head(todo).score
             m == Head(todo).val
             n == Len(S)
             A(k) == Cardinality(Firsts(S) \cap (1..k))
  <1>1. n \in Nat /\ c \in Nat /\ DOMAIN S = 1..n /\ \A k \in 1..n : S[k] \in Scored
    BY LenProperties, ElementOfSeq
  <1>2. todo = SubSeq(S, c + 1, n) /\ todo # << >>
    BY DEF Taken, LoadEntry
  <1>3. c < n
    <2> SUFFICES ASSUME ~ (c < n) PROVE FALSE
      OBVIOUS
    <2>1. c + 1 \in Int /\ n \in Int /\ n < c + 1
      BY <1>1
    <2>2. SubSeq(S, c + 1, n) = << >>
      BY <2>1, SubSeqEmpty
    <2> QED BY <1>2, <2>2
  <1>4. c + 1 \in 1..n /\ n \in c + 1..n /\ c \in 0..n - 1
    BY <1>1, <1>3
  <1>5. Head(todo) = S[c + 1] /\ Tail(todo) = SubSeq(S, c + 1 + 1, n)
    BY <1>2, <1>4, HeadTailOfSubSeq
  <1>6. S[c + 1] = [score |-> s, val |-> m] /\ s \in Score /\ m \in Member
    BY <1>1, <1>4, <1>5 DEF Scored
  <1>7. todo' = SubSeq(S, c + 1 + 1, n)
    BY <1>5 DEF LoadEntry
  <1>8. S[c + 1].val = m
    BY <1>6
  <1>9. \A k \in 1..c + 1 : k \in 1..c \/ k = c + 1
    BY <1>1
  <1>10. \A k \in 1..c : k \in 1..c + 1
    BY <1>1
  <1>11. Insert_(s, m)
    BY DEF LoadEntry
  <1> HIDE DEF s, m, n
  <1>12. CASE m \in DOMAIN dict
    <2>1. dict' = dict /\ sl' = sl
      <3>1. UNCHANGED vars
        BY <1>11, <1>12 DEF Insert_
      <3> QED BY <3>1 DEF vars
    <2>2. PICK k \in 1..c : S[k] = [score |-> dict[m], val |-> m]
      BY <1>12 DEF Taken
    <2>3. c + 1 \notin Firsts(S)
      <3>1. S[k].val = S[c + 1].val /\ k \in 1..(c + 1) - 1
        BY <1>1, <1>8, <2>2
      <3> QED BY <3>1 DEF Firsts
    <2>4. Firsts(S) \cap (1..c + 1) = Firsts(S) \cap (1..c)
      BY <1>4, <2>3, CountFirsts DEF n
    <2>5. \A j \in 1..c + 1 : S[j].val \in DOMAIN dict
      BY <1>8, <1>9, <1>12 DEF Taken
    <2>6. \A o \in DOMAIN dict : \E j \in 1..c + 1 : S[j] = [score |-> dict[o], val |-> o]
      BY <1>10 DEF Taken
    <2>7. ListOf(sl') = ListOf(sl)
      BY <2>1
    <2>8. Taken(S, c + 1, todo', dict', sl')
      BY <1>7, <2>1, <2>4, <2>5, <2>6, <2>7 DEF Taken, n
    <2> QED BY <1>4, <2>8 DEF n
  <1>13. CASE m \notin DOMAIN dict
    <2>1. InsertInto(sl, dict, s, m)
      BY <1>11, <1>13 DEF Insert_
    <2>2. \A k \in 1..c : S[k].val # m
      BY <1>13 DEF Taken
    <2>3. c + 1 \in Firsts(S)
      <3>1. (c + 1) - 1 = c
        BY <1>1
      <3> QED BY <1>1, <1>4, <1>8, <2>2, <3>1 DEF Firsts
    <2>4. /\ A(c) \in Nat /\ A(c + 1) = A(c) + 1
          /\ Firsts(S) \cap (1..c + 1) = (Firsts(S) \cap (1..c)) \cup {c + 1}
      BY <1>4, <2>3, CountFirsts DEF n
    <2>5. ASSUME NEW o \in Elements(sl) PROVE sl.node[o].score <= s
      <3>1. sl.node[o].val \in DOMAIN dict /\ dict[sl.node[o].val] = sl.node[o].score
        BY DEF Clean
      <3>2. PICK k \in 1..c : S[k] = [score |-> dict[sl.node[o].val], val |-> sl.node[o].val]
        BY <3>1 DEF Taken
      <3>3. S[k].score = sl.node[o].score /\ S[c + 1].score = s
        BY <1>6, <3>1, <3>2
      <3>4. k \in 1..n /\ c + 1 \in 1..n /\ k < c + 1
        BY <1>1, <1>4
      <3> QED BY <3>3, <3>4 DEF SortedByScore, n
    <2>6. /\ Len(ListOf(sl')) = Len(ListOf(sl)) + 1
          /\ \A i \in 1..Len(ListOf(sl)) : ListOf(sl')[i] = ListOf(sl)[i]
          /\ ListOf(sl')[Len(ListOf(sl)) + 1] = [score |-> s, val |-> m]
      BY <1>6, <1>13, <2>1, <2>5, InsertAtEnd
    <2>7. Len(ListOf(sl)) = A(c)
      BY DEF Taken
    <2>8. Len(ListOf(sl')) = A(c + 1)
      BY <2>4, <2>6, <2>7
    <2>9. ASSUME NEW k \in Firsts(S) \cap (1..c + 1) PROVE ListOf(sl')[A(k)] = S[k]
      <3>1. CASE k = c + 1
        BY <1>6, <2>4, <2>6, <2>7, <3>1
      <3>2. CASE k \in Firsts(S) \cap (1..c)
        <4>1. ListOf(sl)[A(k)] = S[k]
          BY <3>2 DEF Taken
        <4>2. A(k) \in 1..A(c)
          <5> DEFINE B == Firsts(S) \cap (1..k)
                     C == Firsts(S) \cap (1..c)
          <5>1. B \subseteq C /\ k \in B
            BY <1>1, <3>2
          <5>2. IsFiniteSet(C)
            <6>1. IsFiniteSet(1..c)
              BY <1>1, FS_Interval
            <6> QED BY <6>1, FS_Subset
          <5> HIDE DEF B, C
          <5>3. /\ IsFiniteSet(B) /\ Cardinality(B) \in Nat /\ Cardinality(C) \in Nat
                /\ Cardinality(B) <= Cardinality(C)
            BY <5>1, <5>2, FS_Subset, FS_CardinalityType
          <5>4. Cardinality(B) # 0
            BY <5>1, <5>3, FS_EmptySet
          <5> QED BY <5>3, <5>4 DEF B, C
        <4> QED BY <2>6, <2>7, <4>1, <4>2
      <3> QED BY <2>4, <3>1, <3>2
    <2>10. /\ DOMAIN dict' = DOMAIN dict \cup {m} /\ dict'[m] = s
           /\ \A o \in DOMAIN dict : dict'[o] = dict[o]
      BY <1>13, <2>1 DEF InsertInto, With
    <2>11. \A k \in 1..c + 1 : S[k].val \in DOMAIN dict'
      BY <1>8, <1>9, <2>10 DEF Taken
    <2>12. \A o \in DOMAIN dict' : \E k \in 1..c + 1 : S[k] = [score |-> dict'[o], val |-> o]
      <3> SUFFICES ASSUME NEW o \in DOMAIN dict'
                   PROVE  \E k \in 1..c + 1 : S[k] = [score |-> dict'[o], val |-> o]
        OBVIOUS
      <3>1. CASE o = m
        <4>1. c + 1 \in 1..c + 1
          BY <1>1
        <4> QED BY <1>6, <2>10, <3>1, <4>1
      <3>2. CASE o \in DOMAIN dict
        BY <1>10, <2>10, <3>2 DEF Taken
      <3> QED BY <2>10, <3>1, <3>2
    <2>13. Taken(S, c + 1, todo', dict', sl')
      BY <1>7, <2>8, <2>9, <2>11, <2>12 DEF Taken, n
    <2> QED BY <1>4, <2>13 DEF n
  <1> QED BY <1>12, <1>13

-----------------------------------------------------------------------------
(* Saving.                                                                  *)

LEMMA SavedEntries ==
    ASSUME Inv, WellLaid(sl), sl.tail # NULL
    PROVE  /\ Entries(sl) = ListOf(sl)
           /\ Entries(sl) \in Seq(Scored) /\ SortedByScore(Entries(sl))
           /\ Len(Entries(sl)) # 0
           /\ \A m \in DOMAIN dict : \E k \in 1..Len(Entries(sl)) :
                 Entries(sl)[k] = [score |-> dict[m], val |-> m]
           /\ Clean(dict, sl) => \A k \in 1..Len(Entries(sl)) :
                 /\ Entries(sl)[k].val \in DOMAIN dict
                 /\ dict[Entries(sl)[k].val] = Entries(sl)[k].score
  <1> DEFINE e == Entries(sl)
             list == ListOf(sl)
  <1>1. PICK pos, N : Laid(sl, pos, N)
    BY DEF WellLaid
  <1>2. NodesOK(sl) /\ PlacesOK(sl, pos, N) /\ Linked(sl, pos, N) /\ Ordered(sl, pos)
        /\ Mirrored(sl, pos, N)
    BY <1>1, LaidParts
  <1>3. e = list
    BY <1>1, EntriesAreList
  <1>4. /\ list \in Seq(Scored) /\ Len(list) = N /\ DOMAIN list = 1..N /\ N \in Nat
        /\ \A n \in Elements(sl) : pos[n] \in 1..N /\ list[pos[n]] = EntryOf(sl, n)
        /\ \A k \in 1..N : \E n \in Elements(sl) : pos[n] = k
    <2>1. list \in Seq(Scored) /\ Len(list) = N /\ DOMAIN list = 1..N /\ N \in Nat
      <3> HIDE DEF list
      <3> QED BY <1>2, ListTyped DEF list
    <2>2. /\ \A n \in Elements(sl) : pos[n] \in 1..N /\ list[pos[n]] = EntryOf(sl, n)
          /\ \A k \in 1..N : \E n \in Elements(sl) : pos[n] = k
      BY <1>2, ListIs
    <2> QED BY <2>1, <2>2
  <1> HIDE DEF list
  <1>5. \A k \in 1..N : \E n \in Elements(sl) : pos[n] = k /\ list[k] = EntryOf(sl, n)
    BY <1>4
  <1>6. SortedByScore(list)
    <2> SUFFICES ASSUME NEW j \in 1..N, NEW k \in 1..N, j < k
                 PROVE  list[j].score <= list[k].score
      BY <1>4 DEF SortedByScore
    <2>1. PICK n \in Elements(sl) : pos[n] = j /\ list[j] = EntryOf(sl, n)
      BY <1>5
    <2>2. PICK o \in Elements(sl) : pos[o] = k /\ list[k] = EntryOf(sl, o)
      BY <1>5
    <2>3. sl.node[n].score <= sl.node[o].score
      BY <1>2, <2>1, <2>2 DEF Ordered
    <2>4. list[j].score = sl.node[n].score /\ list[k].score = sl.node[o].score
      BY <2>1, <2>2 DEF EntryOf
    <2> QED BY <2>3, <2>4
  <1>7. N # 0
    BY <1>2 DEF Mirrored
  <1>8. \A m \in DOMAIN dict : \E k \in 1..N : list[k] = [score |-> dict[m], val |-> m]
    <2> SUFFICES ASSUME NEW m \in DOMAIN dict
                 PROVE  \E k \in 1..N : list[k] = [score |-> dict[m], val |-> m]
      OBVIOUS
    <2>1. PICK n \in Elements(sl) : sl.node[n].score = dict[m] /\ sl.node[n].val = m
      BY InvParts DEF DictListed, Listed
    <2>2. pos[n] \in 1..N /\ list[pos[n]] = [score |-> dict[m], val |-> m]
      BY <1>4, <2>1 DEF EntryOf
    <2> QED BY <2>2
  <1>9. ASSUME Clean(dict, sl), NEW k \in 1..N
        PROVE  list[k].val \in DOMAIN dict /\ dict[list[k].val] = list[k].score
    <2>1. PICK n \in Elements(sl) : list[k] = EntryOf(sl, n)
      BY <1>5
    <2>2. list[k].val = sl.node[n].val /\ list[k].score = sl.node[n].score
      BY <2>1 DEF EntryOf
    <2> QED BY <1>9, <2>2 DEF Clean
  <1> HIDE DEF e
  <1>10. /\ e = list /\ e \in Seq(Scored) /\ SortedByScore(e) /\ Len(e) = N /\ Len(e) # 0
         /\ \A m \in DOMAIN dict : \E k \in 1..N : e[k] = [score |-> dict[m], val |-> m]
         /\ Clean(dict, sl) => \A k \in 1..N : e[k].val \in DOMAIN dict
                                               /\ dict[e[k].val] = e[k].score
    BY <1>3, <1>4, <1>6, <1>7, <1>8, <1>9
  <1> QED BY <1>10 DEF e, list

\* The file, and what it has to do with the dictionary that was saved.
FileOK(f, S) ==
    /\ f.table \in BOOLEAN
    /\ S \in Seq(Scored) /\ SortedByScore(S)
    /\ ~ f.table => S = << >>

KeptOK(f, S, d, complete, ties) ==
    /\ DictOK(d)
    /\ complete => /\ f.table => S # << >>
                   /\ \A m \in DOMAIN d : \E k \in 1..Len(S) :
                         S[k] = [score |-> d[m], val |-> m]
    /\ complete /\ ~ ties =>
          \A k \in 1..Len(S) : S[k].val \in DOMAIN d /\ d[S[k].val] = S[k].score

\* Nothing is read in step of a table whose TABLE record is not.
LEMMA NothingReached ==
    ASSUME NEW f, f.table = FALSE, f.intact = 0
    PROVE  Reached(f) = << >> /\ FileOK(f, << >>)
  <1>1. SubSeq(f.keys, 1, 0) = << >>
    BY SubSeqEmpty
  <1>2. Reached(f) = << >>
    BY <1>1 DEF Reached, FlattenSeq
  <1>3. << >> \in Seq(Scored) /\ Len(<< >>) = 0
    BY EmptySeq
  <1>4. SortedByScore(<< >>)
    BY <1>3 DEF SortedByScore
  <1> QED BY <1>2, <1>3, <1>4 DEF FileOK

\* A file without a TABLE record, or with one and some of the KEY records.
SavedAs(R, f) ==
    \/ f.table = FALSE /\ f.intact = 0
    \/ \E K \in SUBSET DOMAIN R, n \in 0..Len(R), t \in BOOLEAN :
          f = [table |-> TRUE, keys |-> [k \in DOMAIN R |-> IF k \in K THEN R[k] ELSE << >>],
               intact |-> n, torn |-> t]

LEMMA SavedFiles ==
    ASSUME NEW R, NEW f \in Files(R)
    PROVE  SavedAs(R, f)
  <1> DEFINE Left(K) == [k \in DOMAIN R |-> IF k \in K THEN R[k] ELSE << >>]
  <1>1. f \in Bare \/ (f \in Mixed(R) /\ (~ f.table => f.intact = 0))
    BY DEF Files
  <1>2. CASE f \in Bare
    BY <1>2 DEF Bare, NoTable, SavedAs
  <1>3. CASE f \in Mixed(R) /\ (~ f.table => f.intact = 0)
    <2>1. /\ f = [table |-> f.table, keys |-> f.keys, intact |-> f.intact, torn |-> f.torn]
          /\ f.table \in BOOLEAN /\ f.keys \in {Left(K) : K \in SUBSET DOMAIN R}
          /\ f.intact \in 0..Len(R) /\ f.torn \in BOOLEAN
      <3> DEFINE all == {Left(K) : K \in SUBSET DOMAIN R}
      <3>1. f \in [table : BOOLEAN, keys : all, intact : 0..Len(R), torn : BOOLEAN]
        BY <1>3 DEF Mixed
      <3>2. /\ f = [table |-> f.table, keys |-> f.keys, intact |-> f.intact, torn |-> f.torn]
            /\ f.table \in BOOLEAN /\ f.keys \in all
            /\ f.intact \in 0..Len(R) /\ f.torn \in BOOLEAN
        <4> HIDE DEF all
        <4> QED BY <3>1
      <3> QED BY <3>2
    <2>2. PICK K \in SUBSET DOMAIN R : f.keys = Left(K)
      <3> HIDE DEF Left
      <3> QED BY <2>1
    <2> HIDE DEF Left
    <2>3. CASE f.table = TRUE
      <3>1. f = [table |-> TRUE, keys |-> Left(K), intact |-> f.intact, torn |-> f.torn]
        BY <2>1, <2>2, <2>3
      <3> QED BY <2>1, <3>1 DEF SavedAs, Left
    <2>4. CASE f.table = FALSE
      BY <1>3, <2>4 DEF SavedAs
    <2> QED BY <2>1, <2>3, <2>4
  <1> QED BY <1>1, <1>2, <1>3

LEMMA SaveKeeps ==
    ASSUME Inv, WellLaid(sl), Clean(dict, sl) \/ tied, table \in BOOLEAN,
           ~ table => DOMAIN dict = {}, SaveToFile
    PROVE  /\ FileOK(file', Reached(file'))
           /\ KeptOK(file', Reached(file'), kept', whole', keptTied')
  <1> DEFINE S == Reached(file')
  <1>1. kept' = dict /\ keptTied' = tied
    BY DEF SaveToFile
  <1>0. DictOK(kept')
    BY <1>1, InvParts
  <1>4. ASSUME file'.table = FALSE, file'.intact = 0, whole' => DOMAIN kept' = {}
        PROVE  FileOK(file', S) /\ KeptOK(file', S, kept', whole', keptTied')
    <2>1. S = << >> /\ FileOK(file', S)
      BY <1>4, NothingReached
    <2> HIDE DEF S
    <2>2. Len(S) = 0
      BY <2>1
    <2> QED BY <1>0, <1>4, <2>1, <2>2 DEF KeptOK
  <1>2. CASE ~ table
    <2>1. file' \in Bare /\ DOMAIN kept' = {}
      BY <1>1, <1>2 DEF SaveToFile
    <2>2. file'.table = FALSE /\ file'.intact = 0
      BY <2>1 DEF Bare, NoTable
    <2> QED BY <1>4, <2>1, <2>2
  <1>3. CASE table
    <2> DEFINE e == Entries(sl)
               R == Records(e)
               end == Len(R)
               Left(K) == [k \in DOMAIN R |-> IF k \in K THEN R[k] ELSE << >>]
    <2>1. /\ sl.tail # NULL
          /\ file' \in Files(R)
          /\ whole' = (file' = [table |-> TRUE, keys |-> R, intact |-> end, torn |-> FALSE])
      BY <1>3 DEF SaveToFile
    <2>2. /\ e \in Seq(Scored) /\ SortedByScore(e) /\ Len(e) # 0
          /\ \A m \in DOMAIN dict : \E k \in 1..Len(e) : e[k] = [score |-> dict[m], val |-> m]
          /\ Clean(dict, sl) => \A k \in 1..Len(e) :
                e[k].val \in DOMAIN dict /\ dict[e[k].val] = e[k].score
      BY <2>1, SavedEntries
    <2>e. end = RecordCount(Len(e)) /\ end \in Nat /\ DOMAIN R = 1..end /\ Cut(Len(e), end) = Len(e)
      <3>1. R \in Seq(Seq(Scored)) /\ Len(R) = RecordCount(Len(e))
        BY <2>2, RecordsAreCuts
      <3>2. Len(e) \in Nat
        BY <2>2, LenProperties
      <3>3. RecordCount(Len(e)) \in Nat /\ Cut(Len(e), RecordCount(Len(e))) = Len(e)
        BY <3>2, Cuts
      <3> HIDE DEF R, e
      <3> QED BY <3>1, <3>3, LenProperties
    <2> HIDE DEF e, R
    <2>3. CASE file'.table = FALSE /\ file'.intact = 0
      <3>1. ~ whole'
        <4>1. [table |-> TRUE, keys |-> R, intact |-> end, torn |-> FALSE].table = TRUE
          OBVIOUS
        <4> QED BY <2>1, <2>3, <4>1
      <3> QED BY <1>4, <2>3, <3>1
    <2>4. ASSUME NEW K \in SUBSET DOMAIN R, NEW n \in 0..end, NEW t \in BOOLEAN,
                 file' = [table |-> TRUE, keys |-> Left(K), intact |-> n, torn |-> t]
          PROVE  FileOK(file', S) /\ KeptOK(file', S, kept', whole', keptTied')
      <3> DEFINE keys == SubSeq(Left(K), 1, n)
      <3>1. /\ keys = [k \in 1..n |-> keys[k]]
            /\ \A k \in 1..n : keys[k] \in {R[k], << >>}
            /\ Left(K) = R /\ n = end => keys = R
        <4>1. keys = [k \in 1..n |-> Left(K)[k]]
          <5>1. n - 1 + 1 = n /\ \A k \in 1..n : 1 + k - 1 = k
            BY <2>e
          <5> HIDE DEF Left
          <5> QED BY <2>e, <5>1
        <4>2. \A k \in 1..n : k \in DOMAIN R
          BY <2>e
        <4>3. \A k \in 1..n : keys[k] \in {R[k], << >>}
          BY <4>1, <4>2
        <4>4. keys = [k \in 1..n |-> keys[k]]
          <5> HIDE DEF Left
          <5> QED BY <4>1
        <4>5. ASSUME Left(K) = R, n = end PROVE keys = R
          <5>1. R = [k \in 1..end |-> R[k]]
            <6>1. R \in Seq(Seq(Scored))
              BY <2>2, RecordsAreCuts DEF R
            <6> QED BY <2>e, <6>1
          <5> HIDE DEF Left
          <5> QED BY <4>1, <4>5, <5>1
        <4> HIDE DEF keys
        <4> QED BY <4>3, <4>4, <4>5
      <3>3. file'.table = TRUE /\ file'.keys = Left(K) /\ file'.intact = n
        BY <2>4
      <3>4. S = FlattenSeq(keys)
        <4> HIDE DEF Left
        <4> QED BY <3>3 DEF Reached
      <3> HIDE DEF keys
      <3>2. FlattenSeq(keys) \in Seq(Scored) /\ ReadBack(e, FlattenSeq(keys), Cut(Len(e), n), keys = R)
        BY <2>2, <2>e, <3>1, FlattenReadsBack DEF R
      <3> HIDE DEF S
      <3>5. FileOK(file', S)
        BY <3>2, <3>3, <3>4 DEF FileOK, ReadBack, SortedByScore
      <3>6. whole' => S = e
        <4> SUFFICES ASSUME whole' PROVE S = e
          OBVIOUS
        <4>1. Left(K) = R /\ n = end
          <5> HIDE DEF Left
          <5> QED BY <2>1, <2>4
        <4>2. keys = R
          BY <3>1, <4>1
        <4>3. S = SubSeq(e, 1, Len(e))
          BY <2>e, <3>2, <3>4, <4>1, <4>2 DEF ReadBack
        <4> QED BY <2>2, <4>3, SubSeqFull
      <3>7. KeptOK(file', S, kept', whole', keptTied')
        <4>1. whole' => /\ file'.table => S # << >>
                        /\ \A m \in DOMAIN kept' : \E k \in 1..Len(S) :
                              S[k] = [score |-> kept'[m], val |-> m]
          <5>1. Len(<< >>) = 0
            OBVIOUS
          <5> QED BY <1>1, <2>2, <3>6, <5>1
        <4>2. whole' /\ ~ keptTied' =>
                 \A k \in 1..Len(S) : S[k].val \in DOMAIN kept' /\ kept'[S[k].val] = S[k].score
          BY <1>1, <2>2, <3>6
        <4> QED BY <1>0, <4>1, <4>2 DEF KeptOK
      <3> QED BY <3>5, <3>7
    <2>5. \/ file'.table = FALSE /\ file'.intact = 0
          \/ \E K \in SUBSET DOMAIN R, n \in 0..end, t \in BOOLEAN :
                file' = [table |-> TRUE, keys |-> Left(K), intact |-> n, torn |-> t]
      <3>1. SavedAs(R, file')
        BY <2>1, SavedFiles
      <3> QED BY <3>1 DEF SavedAs
    <2> QED BY <2>3, <2>4, <2>5
  <1> QED BY <1>2, <1>3

-----------------------------------------------------------------------------
(* The invariant.                                                           *)

Saved == Reached(file)

OnFile == FileOK(file, Saved) /\ KeptOK(file, Saved, kept, whole, keptTied)

\* Every process starts with a clean list and loses that only after a tie.
TieOK ==
    /\ Ties(dict) => tied
    /\ Clean(dict, sl) \/ (tied /\ phase = "serving")

PhaseOK ==
    /\ table \in BOOLEAN /\ phase \in {"loading", "astray", "serving"}
    /\ phase # "loading" => todo = << >>
    /\ ~ table => DOMAIN dict = {} /\ todo = << >>

LoadingOK ==
    phase = "loading" =>
        /\ table = file.table
        /\ \E c \in 0..Len(Saved) : Taken(Saved, c, todo, dict, sl)

\* The members of S have the scores that it gives them first.
HasFirsts(S, d) == \A k \in Firsts(S) : S[k].val \in DOMAIN d /\ d[S[k].val] = S[k].score

AstrayOK == phase = "astray" => HasFirsts(Saved, dict)

FileInv == Inv /\ WellLaid(sl) /\ OnFile /\ TieOK /\ PhaseOK /\ LoadingOK /\ AstrayOK

LEMMA SameFile == OnFile /\ UNCHANGED <<file, kept, whole, keptTied>> => OnFile'
  BY DEF OnFile, Saved

LEMMA EmptySet ==
    /\ WellLaid(EmptyList)
    /\ ListOK(EmptyList)
    /\ Clean([m \in {} |-> 0], EmptyList)
    /\ DictOK([m \in {} |-> 0]) /\ DictListed([m \in {} |-> 0], EmptyList)
    /\ ~ Ties([m \in {} |-> 0])
    /\ \A S \in Seq(Scored) : Taken(S, 0, S, [m \in {} |-> 0], EmptyList)
  <1> DEFINE d == [m \in {} |-> 0]
  <1>1. WellLaid(EmptyList)
    BY EmptyLaid DEF WellLaid
  <1>2. ListOK(EmptyList) /\ Elements(EmptyList) = {}
    BY LevelAssumption DEF ListOK, EmptyList, Elements, Fields
  <1>3. Clean(d, EmptyList) /\ DictOK(d) /\ DictListed(d, EmptyList) /\ ~ Ties(d)
    BY <1>2 DEF Clean, Distinct, DictOK, DictListed, Ties
  <1>4. Len(ListOf(EmptyList)) = 0
    <2>1. PICK pos : Laid(EmptyList, pos, 0)
      BY EmptyLaid
    <2> QED BY <2>1, LaidParts, ListTyped
  <1>5. ASSUME NEW S \in Seq(Scored) PROVE Taken(S, 0, S, d, EmptyList)
    <2>1. SubSeq(S, 0 + 1, Len(S)) = S
      BY SubSeqFull
    <2>2. Firsts(S) \cap (1..0) = {} /\ Cardinality({}) = 0
      BY FS_EmptySet
    <2> QED BY <1>4, <2>1, <2>2 DEF Taken
  <1> QED BY <1>1, <1>2, <1>3, <1>5

LEMMA FileInitInv == FileInit => FileInv
  <1> SUFFICES ASSUME FileInit PROVE FileInv
    OBVIOUS
  <1>1. /\ sl = EmptyList /\ dict = [m \in {} |-> 0] /\ kept = dict
        /\ table = FALSE /\ file = NoTable /\ todo = << >> /\ phase = "serving"
    BY DEF FileInit, Init, SLInit
  <1>2. Inv /\ WellLaid(sl) /\ Clean(dict, sl) /\ ~ Ties(dict)
    BY <1>1, EmptySet, InvParts
  <1>3. Saved = << >> /\ FileOK(file, Saved) /\ file.table = FALSE
    <2>1. file.table = FALSE /\ file.intact = 0
      BY <1>1 DEF NoTable
    <2> QED BY <2>1, NothingReached DEF Saved
  <1>4. Len(Saved) = 0 /\ DOMAIN kept = {}
    BY <1>1, <1>3
  <1>5. OnFile
    <2>1. DictOK(kept)
      BY <1>1, EmptySet
    <2> QED BY <1>3, <1>4, <2>1 DEF OnFile, KeptOK
  <1>6. DOMAIN dict = {}
    BY <1>1
  <1> QED BY <1>1, <1>2, <1>5, <1>6 DEF FileInv, TieOK, PhaseOK, LoadingOK, AstrayOK

\* At the end of loading all entries have been taken.
LEMMA AllTaken ==
    ASSUME FileInv, Loaded
    PROVE  /\ Saved \in Seq(Scored) /\ Len(Saved) \in Nat /\ DOMAIN Saved = 1..Len(Saved)
           /\ Taken(Saved, Len(Saved), << >>, dict, sl)
           /\ Clean(dict, sl) /\ table = file.table
  <1>1. phase = "loading" /\ todo = << >>
    BY DEF Loaded
  <1>2. Saved \in Seq(Scored)
    BY DEF FileInv, OnFile, FileOK
  <1>3. Len(Saved) \in Nat /\ DOMAIN Saved = 1..Len(Saved)
    BY <1>2, LenProperties
  <1>4. PICK c \in 0..Len(Saved) : Taken(Saved, c, todo, dict, sl)
    BY <1>1 DEF FileInv, LoadingOK
  <1>5. c = Len(Saved)
    <2> SUFFICES ASSUME c # Len(Saved) PROVE FALSE
      OBVIOUS
    <2>1. c + 1 \in 1..Len(Saved) /\ Len(Saved) \in c + 1..Len(Saved)
      <3> DEFINE n == Len(Saved)
      <3>1. n \in Nat /\ c \in 0..n /\ c # n
        BY <1>3
      <3> HIDE DEF n
      <3>2. c + 1 \in 1..n /\ n \in c + 1..n
        BY <3>1
      <3> QED BY <3>2 DEF n
    <2>2. SubSeq(Saved, c + 1, Len(Saved))
            = <<Saved[c + 1]>> \o SubSeq(Saved, c + 1 + 1, Len(Saved))
      BY <1>2, <2>1, SubSeqRecursiveFirst
    <2>3. <<Saved[c + 1]>> \in Seq(Scored) /\ SubSeq(Saved, c + 1 + 1, Len(Saved)) \in Seq(Scored)
      <3>1. \A i \in c + 1..Len(Saved) : Saved[i] \in Scored
        BY <1>2, <2>1, ElementOfSeq
      <3> DEFINE n == Len(Saved)
      <3>a. n \in Nat /\ c \in 0..n
        BY <1>3
      <3> HIDE DEF n
      <3>b. c + 1 + 1 \in Int /\ n \in Int /\ \A i \in c + 1 + 1..n : i \in c + 1..n
        BY <3>a
      <3>2. c + 1 + 1 \in Int /\ Len(Saved) \in Int
        BY <3>b DEF n
      <3>3. \A i \in c + 1 + 1..Len(Saved) : i \in c + 1..Len(Saved)
        BY <3>b DEF n
      <3> QED BY <1>2, <2>1, <3>1, <3>2, <3>3, ElementOfSeq, SubSeqProperties
    <2>4. <<Saved[c + 1]>> # << >>
      OBVIOUS
    <2>5. SubSeq(Saved, c + 1, Len(Saved)) # << >>
      <3> DEFINE a == <<Saved[c + 1]>>
                 b == SubSeq(Saved, c + 1 + 1, Len(Saved))
      <3>1. a \in Seq(Scored) /\ b \in Seq(Scored) /\ a # << >>
        BY <2>3, <2>4
      <3> HIDE DEF a, b
      <3>2. a \o b # << >>
        BY <3>1, ConcatEqualIffEmpty
      <3> QED BY <2>2, <3>2 DEF a, b
    <2> QED BY <1>1, <1>4, <2>5 DEF Taken
  <1>6. Clean(dict, sl) /\ table = file.table
    BY <1>1 DEF FileInv, TieOK, LoadingOK
  <1> QED BY <1>1, <1>2, <1>3, <1>4, <1>5, <1>6

\* The list then holds the first entry of each member, and so does the dictionary.
LEMMA LoadedFirsts ==
    ASSUME FileInv, Loaded
    PROVE  /\ Len(Entries(sl)) = Cardinality(Firsts(Saved))
           /\ \A k \in Firsts(Saved) :
                 Entries(sl)[Cardinality(Firsts(Saved) \cap (1..k))] = Saved[k]
           /\ \A k \in DOMAIN Entries(sl) :
                 dict[Entries(sl)[k].val] = Entries(sl)[k].score
           /\ HasFirsts(Saved, dict)
  <1>1. /\ Taken(Saved, Len(Saved), << >>, dict, sl) /\ Clean(dict, sl)
        /\ Saved \in Seq(Scored) /\ DOMAIN Saved = 1..Len(Saved) /\ Len(Saved) \in Nat
    BY AllTaken
  <1>2. PICK pos, N : Laid(sl, pos, N)
    BY DEF FileInv, WellLaid
  <1>3. NodesOK(sl) /\ PlacesOK(sl, pos, N) /\ Linked(sl, pos, N)
    BY <1>2, LaidParts
  <1>4. Entries(sl) = ListOf(sl)
    BY <1>2, EntriesAreList
  <1>5. Firsts(Saved) \cap (1..Len(Saved)) = Firsts(Saved)
    BY <1>1 DEF Firsts
  <1>6. ASSUME NEW k \in DOMAIN ListOf(sl)
        PROVE  dict[ListOf(sl)[k].val] = ListOf(sl)[k].score
    <2>1. k \in 1..N
      BY <1>3, ListTyped
    <2>2. PICK n \in Elements(sl) : pos[n] = k
      BY <1>3, <2>1, ListIs
    <2>3. ListOf(sl)[k] = EntryOf(sl, n)
      BY <1>3, <2>2, ListIs
    <2>4. ListOf(sl)[k].val = sl.node[n].val /\ ListOf(sl)[k].score = sl.node[n].score
      BY <2>3 DEF EntryOf
    <2> QED BY <1>1, <2>4 DEF Clean
  <1>7. ASSUME NEW k \in Firsts(Saved)
        PROVE  Saved[k].val \in DOMAIN dict /\ dict[Saved[k].val] = Saved[k].score
    <2> DEFINE A == Firsts(Saved)
               B == A \cap (1..k)
    <2>1. k \in 1..Len(Saved) /\ k \in B
      BY <1>1, <1>7 DEF Firsts
    <2>2. IsFiniteSet(A) /\ B \subseteq A
      <3>1. IsFiniteSet(1..Len(Saved)) /\ A \subseteq 1..Len(Saved)
        BY <1>1, FS_Interval DEF Firsts
      <3> QED BY <3>1, FS_Subset
    <2> HIDE DEF A, B
    <2>3. IsFiniteSet(B) /\ Cardinality(B) <= Cardinality(A) /\ Cardinality(A) \in Nat
      BY <2>2, FS_Subset, FS_CardinalityType
    <2>4. Cardinality(B) \in Nat /\ Cardinality(B) # 0
      <3>1. B # {}
        BY <2>1
      <3> QED BY <2>3, <3>1, FS_CardinalityType, FS_EmptySet
    <2>5. Cardinality(A) = N
      BY <1>1, <1>3, <1>5, ListTyped DEF Taken, A
    <2>6. Cardinality(B) \in DOMAIN ListOf(sl)
      BY <1>3, <2>3, <2>4, <2>5, ListTyped
    <2>7. ListOf(sl)[Cardinality(B)] = Saved[k]
      BY <1>1, <1>5, <1>7 DEF Taken, A, B
    <2>8. dict[Saved[k].val] = Saved[k].score
      BY <1>6, <2>6, <2>7
    <2> QED BY <1>1, <2>1, <2>8 DEF Taken
  <1>8. /\ Len(ListOf(sl)) = Cardinality(Firsts(Saved))
        /\ \A k \in Firsts(Saved) :
              ListOf(sl)[Cardinality(Firsts(Saved) \cap (1..k))] = Saved[k]
    BY <1>1, <1>5 DEF Taken
  <1>9. HasFirsts(Saved, dict)
    BY <1>7 DEF HasFirsts
  <1> QED BY <1>4, <1>6, <1>8, <1>9

\* Insert_ changes the score of no member.
LEMMA InsertKeepsEntries ==
    ASSUME NEW s, NEW m, Insert_(s, m)
    PROVE  \A o \in DOMAIN dict : o \in DOMAIN dict' /\ dict'[o] = dict[o]
  BY DEF Insert_, InsertInto, With, vars

LEMMA FileNextInv == FileInv /\ [FileNext]_fileVars => FileInv'
  <1> SUFFICES ASSUME FileInv, [FileNext]_fileVars PROVE FileInv'
    OBVIOUS
  <1>1. Inv /\ WellLaid(sl) /\ OnFile /\ TieOK /\ PhaseOK /\ LoadingOK /\ AstrayOK
    BY DEF FileInv
  <1>u. CASE UNCHANGED fileVars
    <2>1. /\ UNCHANGED <<file, kept, whole, keptTied>> /\ UNCHANGED vars
          /\ sl' = sl /\ dict' = dict
      BY <1>u DEF fileVars, vars
    <2>2. OnFile'
      BY <1>1, <2>1, SameFile
    <2>3. Inv' /\ WellLaid(sl')
      BY <1>1, <2>1, NextInv
    <2>4. TieOK' /\ PhaseOK' /\ LoadingOK' /\ AstrayOK'
      BY <1>1, <1>u DEF TieOK, PhaseOK, LoadingOK, AstrayOK, fileVars, vars, Saved
    <2> QED BY <2>2, <2>3, <2>4 DEF FileInv
  <1>t. ASSUME FileNext PROVE tied' = (Ties(dict') \/ (tied /\ phase' = "serving"))
    BY <1>t DEF FileNext
  <1>2. ASSUME FileNext, NEW s \in Score, NEW m \in Member, DbInsert(s, m) PROVE FileInv'
    <2>1. /\ Update(s, m) /\ phase = "serving" /\ phase' = "serving" /\ table' = TRUE
          /\ todo' = todo /\ UNCHANGED <<file, kept, whole, keptTied>>
      BY <1>2 DEF DbInsert
    <2>2. /\ Inv' /\ WellLaid(sl')
          /\ Clean(dict, sl) /\ ~ Ties(dict) => Clean(dict', sl')
      BY <1>1, <2>1, UpdateKeeps
    <2>3. OnFile'
      BY <1>1, <2>1, SameFile
    <2>4. TieOK'
      BY <1>1, <1>2, <1>t, <2>1, <2>2 DEF TieOK
    <2>5. PhaseOK' /\ LoadingOK' /\ AstrayOK'
      BY <1>1, <2>1 DEF PhaseOK, LoadingOK, AstrayOK
    <2> QED BY <2>2, <2>3, <2>4, <2>5 DEF FileInv
  <1>3. ASSUME FileNext, NEW m \in Member, DbDelMem(m) PROVE FileInv'
    <2>1. /\ DelMem(m) /\ phase = "serving" /\ phase' = "serving" /\ table /\ table' = table
          /\ todo' = todo /\ UNCHANGED <<file, kept, whole, keptTied>>
      BY <1>3 DEF DbDelMem
    <2>2. /\ Inv' /\ WellLaid(sl')
          /\ Clean(dict, sl) /\ ~ Ties(dict) => Clean(dict', sl')
      BY <1>1, <2>1, DelMemKeeps
    <2>3. OnFile'
      BY <1>1, <2>1, SameFile
    <2>4. TieOK'
      BY <1>1, <1>3, <1>t, <2>1, <2>2 DEF TieOK
    <2>5. PhaseOK' /\ LoadingOK' /\ AstrayOK'
      BY <1>1, <2>1 DEF PhaseOK, LoadingOK, AstrayOK
    <2> QED BY <2>2, <2>3, <2>4, <2>5 DEF FileInv
  <1>4. ASSUME FileNext, SaveToFile PROVE FileInv'
    <2>1. /\ UNCHANGED vars /\ sl' = sl /\ dict' = dict /\ phase = "serving" /\ phase' = phase
          /\ table' = table /\ todo' = todo
      BY <1>4 DEF SaveToFile, vars
    <2>2. Inv' /\ WellLaid(sl')
      BY <1>1, <2>1, NextInv
    <2>3. OnFile'
      <3>1. Clean(dict, sl) \/ tied
        BY <1>1 DEF TieOK
      <3>2. table \in BOOLEAN /\ (~ table => DOMAIN dict = {})
        BY <1>1 DEF PhaseOK
      <3> QED BY <1>1, <1>4, <3>1, <3>2, SaveKeeps DEF OnFile, Saved
    <2>4. TieOK'
      <3>1. tied' = (Ties(dict') \/ (tied /\ phase' = "serving"))
        BY <1>4, <1>t
      <3>2. Ties(dict') <=> Ties(dict)
        BY <2>1
      <3>3. Clean(dict', sl') <=> Clean(dict, sl)
        BY <2>1
      <3>4. phase' = "serving"
        BY <2>1
      <3>5. ASSUME tied PROVE tied'
        BY ONLY <3>1, <3>4, <3>5
      <3>6. ASSUME tied' PROVE tied
        <4>1. Ties(dict') \/ (tied /\ phase' = "serving")
          BY ONLY <3>1, <3>6
        <4>2. Ties(dict) => tied
          BY <1>1 DEF TieOK
        <4> QED BY <3>2, <4>1, <4>2
      <3> QED BY <1>1, <2>1, <3>2, <3>3, <3>5, <3>6 DEF TieOK
    <2>5. PhaseOK' /\ LoadingOK' /\ AstrayOK'
      BY <1>1, <2>1 DEF PhaseOK, LoadingOK, AstrayOK
    <2> QED BY <2>2, <2>3, <2>4, <2>5 DEF FileInv
  <1>5. ASSUME FileNext, Restart PROVE FileInv'
    <2>1. /\ sl' = EmptyList /\ dict' = [m \in {} |-> 0] /\ table' = file.table
          /\ todo' = Saved /\ phase' = "loading" /\ UNCHANGED <<file, kept, whole, keptTied>>
      BY <1>5 DEF Restart, Saved
    <2>2. Inv' /\ WellLaid(sl') /\ Clean(dict', sl') /\ ~ Ties(dict')
      BY <2>1, EmptySet, InvPartsNext
    <2>3. OnFile'
      BY <1>1, <2>1, SameFile
    <2>4. TieOK'
      BY <2>2 DEF TieOK
    <2>5. Saved' = Saved /\ Saved \in Seq(Scored) /\ file.table \in BOOLEAN
          /\ (~ file.table => Saved = << >>)
      BY <1>1, <2>1 DEF OnFile, FileOK, Saved
    <2>6. PhaseOK' /\ AstrayOK'
      BY <2>1, <2>5 DEF PhaseOK, AstrayOK
    <2>7. LoadingOK'
      <3>1. Taken(Saved, 0, Saved, dict', sl') /\ 0 \in 0..Len(Saved)
        BY <2>1, <2>5, EmptySet, LenProperties
      <3> QED BY <2>1, <2>5, <3>1 DEF LoadingOK
    <2> QED BY <2>2, <2>3, <2>4, <2>6, <2>7 DEF FileInv
  <1>6. ASSUME FileNext, LoadEntry PROVE FileInv'
    <2>1. /\ phase = "loading" /\ todo # << >> /\ Insert_(Head(todo).score, Head(todo).val)
          /\ table' = table /\ phase' = phase /\ UNCHANGED <<file, kept, whole, keptTied>>
      BY <1>6 DEF LoadEntry
    <2>2. Clean(dict, sl) /\ table = file.table /\ table = TRUE
      BY <1>1, <2>1 DEF TieOK, LoadingOK, PhaseOK
    <2>3. PICK c \in 0..Len(Saved) : Taken(Saved, c, todo, dict, sl)
      BY <1>1, <2>1 DEF LoadingOK
    <2>4. Saved \in Seq(Scored) /\ SortedByScore(Saved) /\ Saved' = Saved
      BY <1>1, <2>1 DEF OnFile, FileOK, Saved
    <2>5. c + 1 \in 0..Len(Saved) /\ Taken(Saved, c + 1, todo', dict', sl')
      BY <1>1, <1>6, <2>2, <2>3, <2>4, TakeOne
    <2>6. Head(todo).score \in Score /\ Head(todo).val \in Member
      <3>1. /\ Len(Saved) \in Nat /\ todo = SubSeq(Saved, c + 1, Len(Saved))
            /\ c + 1 \in 1..Len(Saved) /\ Len(Saved) \in c + 1..Len(Saved)
        BY <2>3, <2>4, <2>5, LenProperties DEF Taken
      <3>2. Head(todo) = Saved[c + 1] /\ Saved[c + 1] \in Scored
        BY <2>4, <3>1, HeadTailOfSubSeq, ElementOfSeq
      <3> QED BY <3>2 DEF Scored
    <2>7. Inv' /\ WellLaid(sl') /\ Clean(dict', sl')
      BY <1>1, <2>1, <2>2, <2>6, InsertKeeps
    <2>8. OnFile'
      BY <1>1, <2>1, SameFile
    <2>9. TieOK'
      BY <1>6, <1>t, <2>7 DEF TieOK
    <2>10. PhaseOK' /\ LoadingOK' /\ AstrayOK'
      BY <2>1, <2>2, <2>4, <2>5 DEF PhaseOK, LoadingOK, AstrayOK
    <2> QED BY <2>7, <2>8, <2>9, <2>10 DEF FileInv
  <1>7. ASSUME FileNext, LoadDone PROVE FileInv'
    <2>1. /\ UNCHANGED vars /\ sl' = sl /\ dict' = dict /\ Loaded
          /\ phase' \in {"astray", "serving"} /\ table' = table /\ todo' = todo /\ todo = << >>
          /\ UNCHANGED <<file, kept, whole, keptTied>>
      BY <1>7 DEF LoadDone, Loaded, vars
    <2>2. Inv' /\ WellLaid(sl')
      BY <1>1, <2>1, NextInv
    <2>3. OnFile'
      BY <1>1, <2>1, SameFile
    <2>4. TieOK'
      BY <1>1, <1>7, <1>t, <2>1 DEF TieOK, Loaded
    <2>5. PhaseOK' /\ LoadingOK'
      BY <1>1, <2>1 DEF PhaseOK, LoadingOK
    <2>6. AstrayOK'
      <3>1. HasFirsts(Saved, dict)
        BY <2>1, LoadedFirsts
      <3>2. Saved' = Saved
        BY <2>1 DEF Saved
      <3> QED BY <2>1, <3>1, <3>2 DEF AstrayOK, HasFirsts
    <2> QED BY <2>2, <2>3, <2>4, <2>5, <2>6 DEF FileInv
  <1>8. ASSUME FileNext, Astray PROVE FileInv'
    <2>1. /\ phase = "astray" /\ phase' = "astray" /\ todo' = todo
          /\ UNCHANGED <<file, kept, whole, keptTied>> /\ Saved' = Saved
      BY <1>8 DEF Astray, Saved
    <2>2. OnFile'
      BY <1>1, <2>1, SameFile
    <2>3. Clean(dict, sl) /\ HasFirsts(Saved, dict)
      BY <1>1, <2>1 DEF TieOK, AstrayOK
    <2>4. CASE table' = TRUE /\ UNCHANGED vars
      <3>1. sl' = sl /\ dict' = dict /\ table' = TRUE
        BY <2>4 DEF vars
      <3>2. Inv' /\ WellLaid(sl')
        BY <1>1, <2>4, <3>1, NextInv
      <3>3. TieOK'
        BY <1>1, <1>8, <1>t, <2>3, <3>1 DEF TieOK
      <3>4. PhaseOK' /\ LoadingOK' /\ AstrayOK'
        BY <1>1, <2>1, <3>1 DEF PhaseOK, LoadingOK, AstrayOK
      <3> QED BY <2>2, <3>2, <3>3, <3>4 DEF FileInv
    <2>5. ASSUME table, table' = table, NEW s \in Score, NEW m \in Member, Insert_(s, m)
          PROVE  FileInv'
      <3>1. Inv' /\ WellLaid(sl') /\ Clean(dict', sl')
        BY <1>1, <2>3, <2>5, InsertKeeps
      <3>2. TieOK'
        BY <1>8, <1>t, <3>1 DEF TieOK
      <3>3. HasFirsts(Saved, dict')
        BY <2>3, <2>5, InsertKeepsEntries DEF HasFirsts
      <3>4. PhaseOK' /\ LoadingOK' /\ AstrayOK'
        BY <1>1, <2>1, <2>5, <3>3 DEF PhaseOK, LoadingOK, AstrayOK
      <3> QED BY <2>2, <3>1, <3>2, <3>4 DEF FileInv
    <2> QED BY <1>8, <2>4, <2>5 DEF Astray
  <1>9. ASSUME FileNext, AstrayDone PROVE FileInv'
    <2>1. /\ UNCHANGED vars /\ sl' = sl /\ dict' = dict /\ phase = "astray"
          /\ phase' = "serving" /\ table' = table /\ todo' = todo
          /\ UNCHANGED <<file, kept, whole, keptTied>>
      BY <1>9 DEF AstrayDone, vars
    <2>2. Inv' /\ WellLaid(sl')
      BY <1>1, <2>1, NextInv
    <2>3. OnFile'
      BY <1>1, <2>1, SameFile
    <2>4. TieOK'
      BY <1>1, <1>9, <1>t, <2>1 DEF TieOK
    <2>5. PhaseOK' /\ LoadingOK' /\ AstrayOK'
      BY <1>1, <2>1 DEF PhaseOK, LoadingOK, AstrayOK
    <2> QED BY <2>2, <2>3, <2>4, <2>5 DEF FileInv
  <1> QED BY <1>u, <1>2, <1>3, <1>4, <1>5, <1>6, <1>7, <1>8, <1>9 DEF FileNext

-----------------------------------------------------------------------------
(* What the invariant says of the properties.                               *)

LEMMA LaidHeap == WellLaid(sl) => HeapWellFormed
  <1> SUFFICES ASSUME WellLaid(sl) PROVE HeapWellFormed
    OBVIOUS
  <1>1. PICK pos, N : Laid(sl, pos, N)
    BY DEF WellLaid
  <1> QED
    BY <1>1, LaidLinksOK, LaidChainsNested, LaidSpansAreDistances, LaidBackward
       DEF HeapWellFormed

LEMMA InvMembersRestored == FileInv => MembersRestored
  <1> SUFFICES ASSUME FileInv, Loaded, whole
               PROVE  DOMAIN kept \subseteq DOMAIN dict /\ (table => sl.tail # NULL)
    BY DEF MembersRestored
  <1>1. /\ Taken(Saved, Len(Saved), << >>, dict, sl) /\ table = file.table
        /\ Saved \in Seq(Scored) /\ Len(Saved) \in Nat
    BY AllTaken
  <1>2. /\ file.table => Saved # << >>
        /\ \A m \in DOMAIN kept : \E k \in 1..Len(Saved) :
              Saved[k] = [score |-> kept[m], val |-> m]
    BY DEF FileInv, OnFile, KeptOK
  <1>3. \A k \in 1..Len(Saved) : Saved[k].val \in DOMAIN dict
    BY <1>1 DEF Taken
  <1>4. DOMAIN kept \subseteq DOMAIN dict
    <2> SUFFICES ASSUME NEW m \in DOMAIN kept PROVE m \in DOMAIN dict
      OBVIOUS
    <2>1. PICK k \in 1..Len(Saved) : Saved[k] = [score |-> kept[m], val |-> m]
      BY <1>2
    <2>2. Saved[k].val = m
      BY <2>1
    <2> QED BY <1>3, <2>2
  <1>5. ASSUME table PROVE sl.tail # NULL
    <2>1. Saved # << >>
      BY <1>1, <1>2, <1>5
    <2>2. 1 \in 1..Len(Saved)
      BY <1>1, <2>1, EmptySeq
    <2>3. Saved[1].val \in DOMAIN dict
      BY <1>3, <2>2
    <2>4. PICK n : n \in Elements(sl)
      BY <2>3, InvParts DEF FileInv, DictListed, Listed
    <2>5. PICK pos, N : Laid(sl, pos, N)
      BY DEF FileInv, WellLaid
    <2>6. NodesOK(sl) /\ PlacesOK(sl, pos, N) /\ Linked(sl, pos, N) /\ Mirrored(sl, pos, N)
      BY <2>5, LaidParts
    <2>7. N \in Nat /\ pos[n] \in 1..N
      BY <2>4, <2>6, ListIs DEF PlacesOK
    <2>8. sl.tail \in Elements(sl) /\ Elements(sl) \subseteq Node
      BY <2>6, <2>7 DEF Mirrored, NodesOK
    <2> QED BY <2>8, AddressAssumption
  <1> QED BY <1>4, <1>5

LEMMA InvFirstEntriesRestored == FileInv => FirstEntriesRestored
  <1> SUFFICES ASSUME FileInv PROVE FirstEntriesRestored
    OBVIOUS
  <1>1. phase = "astray" => HasFirsts(Saved, dict)
    BY DEF FileInv, AstrayOK
  <1> QED BY <1>1, LoadedFirsts DEF FirstEntriesRestored, HasFirsts, Saved, Firsts

LEMMA InvListIsDict == FileInv => ListIsDictUntilTied
  <1> SUFFICES ASSUME FileInv, ~ tied
               PROVE  Cardinality(Elements(sl)) = Cardinality(DOMAIN dict) /\ DictInList
    BY DEF ListIsDictUntilTied
  <1>1. Clean(dict, sl) /\ DictListed(dict, sl) /\ DictInList
    BY InvParts DEF FileInv, TieOK, Inv
  <1> DEFINE g == [n \in Elements(sl) |-> sl.node[n].val]
  <1>2. g \in Bijection(Elements(sl), DOMAIN dict)
    <2>1. g \in [Elements(sl) -> DOMAIN dict]
      BY <1>1 DEF Clean
    <2>2. \A n, o \in Elements(sl) : g[n] = g[o] => n = o
      BY <1>1 DEF Clean, Distinct
    <2>3. \A m \in DOMAIN dict : \E n \in Elements(sl) : g[n] = m
      BY <1>1 DEF DictListed, Listed
    <2> HIDE DEF g
    <2> QED BY <2>1, <2>2, <2>3 DEF Bijection, Injection, Surjection, IsInjective
  <1>3. IsFiniteSet(Elements(sl))
    <2>1. Elements(sl) \subseteq Node
      BY DEF FileInv, Inv, TypeOK
    <2> QED BY <2>1, AddressesFinite, FS_Subset
  <1> HIDE DEF g
  <1>4. Cardinality(Elements(sl)) = Cardinality(DOMAIN dict)
    BY <1>2, <1>3, FS_Bijection DEF ExistsBijection
  <1> QED BY <1>1, <1>4

LEMMA InvDictRestored == FileInv => DictRestoredUntilTied
  <1> SUFFICES ASSUME FileInv, Loaded, whole, ~ keptTied PROVE dict = kept
    BY DEF DictRestoredUntilTied
  <1>1. Taken(Saved, Len(Saved), << >>, dict, sl)
    BY AllTaken
  <1>2. /\ \A m \in DOMAIN kept : \E k \in 1..Len(Saved) :
              Saved[k] = [score |-> kept[m], val |-> m]
        /\ \A k \in 1..Len(Saved) :
              Saved[k].val \in DOMAIN kept /\ kept[Saved[k].val] = Saved[k].score
    BY DEF FileInv, OnFile, KeptOK
  <1>3. DOMAIN kept \subseteq DOMAIN dict
    BY InvMembersRestored DEF MembersRestored
  <1>4. \A m \in DOMAIN dict : m \in DOMAIN kept /\ kept[m] = dict[m]
    <2> SUFFICES ASSUME NEW m \in DOMAIN dict PROVE m \in DOMAIN kept /\ kept[m] = dict[m]
      OBVIOUS
    <2>1. PICK k \in 1..Len(Saved) : Saved[k] = [score |-> dict[m], val |-> m]
      BY <1>1 DEF Taken
    <2>2. Saved[k].val = m /\ Saved[k].score = dict[m]
      BY <2>1
    <2> QED BY <1>2, <2>2
  <1>5. dict \in [DOMAIN dict -> Score] /\ kept \in [DOMAIN kept -> Score]
    BY InvParts DEF FileInv, DictOK, OnFile, KeptOK
  <1>6. DOMAIN dict = DOMAIN kept
    BY <1>3, <1>4
  <1> QED BY <1>4, <1>5, <1>6

-----------------------------------------------------------------------------
LEMMA FileAlways == FileSpec => []FileInv
  <1> QED BY FileInitInv, FileNextInv, PTL DEF FileSpec

\* Through updates, saves and restarts the data of the set stay well typed.
THEOREM FileTypeCorrect == FileSpec => []TypeOK
  <1>1. FileInv => TypeOK
    BY DEF FileInv, Inv
  <1> QED BY <1>1, FileAlways, PTL

\* A restart leaves out of the list no member that it brings back, and nothing
\* afterwards loses one.
THEOREM FileDictionaryListed == FileSpec => []DictInList
  <1>1. FileInv => DictInList
    BY DEF FileInv, Inv
  <1> QED BY <1>1, FileAlways, PTL

\* Nodes that Delete missed, and members the list then holds twice, do not
\* disturb the links, the spans or the way back.
THEOREM FileHeapWellFormed == FileSpec => []HeapWellFormed
  <1>1. FileInv => HeapWellFormed
    BY LaidHeap DEF FileInv
  <1> QED BY <1>1, FileAlways, PTL

\* Update and DelMem leave no node behind before two members share a score.
THEOREM ListIsDictionary == FileSpec => []ListIsDictUntilTied
  <1> QED BY InvListIsDict, FileAlways, PTL

\* A restart from a complete save brings back every member, and a node with
\* every table.
THEOREM EveryMemberRestored == FileSpec => []MembersRestored
  <1> QED BY InvMembersRestored, FileAlways, PTL

\* From complete saves and from others, the loader makes the list of the first
\* entries of each member, in the order of the file, as far as it reads in step;
\* what it takes for entries behind a record that SaveObj wrote in part
\* (sldb.cpp:151) changes the score of no member it had.
THEOREM FirstEntriesLoaded == FileSpec => []FirstEntriesRestored
  <1> QED BY InvFirstEntriesRestored, FileAlways, PTL

\* What is saved completely before a tie comes back unchanged.
THEOREM DictionaryRestored == FileSpec => []DictRestoredUntilTied
  <1> QED BY InvDictRestored, FileAlways, PTL

-----------------------------------------------------------------------------
(* The answers of the handlers.                                             *)

\* GetRank never gives a member the place of another.
LEMMA RankIsOwn ==
    ASSUME NEW pos, NEW N, Laid(sl, pos, N), NEW s, NEW m
    PROVE  \/ GetRank(sl, s, m) = 0
           \/ \E n \in Elements(sl) : sl.node[n].val = m /\ GetRank(sl, s, m) = pos[n]
  <1> DEFINE isMember(o) == o # head_ /\ sl.node[o].val = m
             on == [i \in 1..MaxLevel |->
                      {at \in Spot(sl, i) :
                          /\ ~ isMember(at.node)
                          /\ sl.node[Forward(sl, at.node, i)].score <= s}]
             at == Descend(sl, on)[1]
  <1>1. at.node \in DOMAIN sl.node /\ at.rank = pos[at.node]
    <2> HIDE DEF on
    <2> QED BY LaidParts, DescendEnds
  <1>2. GetRank(sl, s, m) = IF isMember(at.node) THEN at.rank ELSE 0
    BY DEF GetRank
  <1> HIDE DEF at
  <1>3. isMember(at.node) => at.node \in Elements(sl)
    BY <1>1 DEF Elements
  <1> QED BY <1>1, <1>2, <1>3

\* A clean list without ties, by the places of its nodes.
Exact(pos, N) ==
    Laid(sl, pos, N) /\ Clean(dict, sl) /\ DictListed(dict, sl) /\ ~ Ties(dict)

LEMMA ExactParts ==
    ASSUME NEW pos, NEW N, Exact(pos, N)
    PROVE  /\ N \in Nat /\ N <= Cardinality(Node) /\ Cardinality(Node) \in Nat
           /\ \A n \in Elements(sl) :
                 /\ pos[n] \in 1..N /\ Order(sl)[pos[n]] = n
                 /\ sl.node[n].val \in DOMAIN dict
                 /\ dict[sl.node[n].val] = sl.node[n].score
                 /\ sl.node[n].score \in Int
           /\ \A m \in DOMAIN dict : \E n \in Elements(sl) : sl.node[n].val = m
           /\ \A k \in 1..N : Order(sl)[k] \in Elements(sl) /\ pos[Order(sl)[k]] = k
           /\ DOMAIN Order(sl) = 1..N /\ Len(Order(sl)) = N /\ Order(sl) \in Seq(Elements(sl))
           /\ \A n, o \in Elements(sl) : sl.node[n].val = sl.node[o].val => n = o
           /\ \A n, o \in Elements(sl) : pos[n] <= pos[o] <=> sl.node[n].score <= sl.node[o].score
  <1>1. /\ NodesOK(sl) /\ PlacesOK(sl, pos, N) /\ Linked(sl, pos, N) /\ Ordered(sl, pos)
    BY LaidParts DEF Exact
  <1>2. /\ Order(sl) \in Seq(Elements(sl)) /\ DOMAIN Order(sl) = 1..N /\ Len(Order(sl)) = N
        /\ \A k \in 1..N : Order(sl)[k] \in Elements(sl) /\ pos[Order(sl)[k]] = k
        /\ \A n \in Elements(sl) : pos[n] \in 1..N /\ Order(sl)[pos[n]] = n
    BY <1>1, OrderIs
  <1>3. N \in Nat /\ N <= Cardinality(Node) /\ Cardinality(Node) \in Nat
    <2>1. N \in Nat
      BY <1>1 DEF PlacesOK
    <2> QED BY <1>1, <2>1, ElementsCounted
  <1>4. \A n \in Elements(sl) : sl.node[n].score \in Int
    BY <1>1, ScoreAssumption DEF NodesOK
  <1>5. \A n \in Elements(sl) : /\ sl.node[n].val \in DOMAIN dict
                                /\ dict[sl.node[n].val] = sl.node[n].score
    BY DEF Exact, Clean
  <1>6. \A m \in DOMAIN dict : \E n \in Elements(sl) : sl.node[n].val = m
    BY DEF Exact, DictListed, Listed
  <1>7. \A n, o \in Elements(sl) : sl.node[n].val = sl.node[o].val => n = o
    BY DEF Exact, Clean, Distinct
  <1>8. ASSUME NEW n \in Elements(sl), NEW o \in Elements(sl)
        PROVE  pos[n] <= pos[o] <=> sl.node[n].score <= sl.node[o].score
    <2>1. pos[n] \in Int /\ pos[o] \in Int
      BY <1>2, <1>3
    <2>2. sl.node[n].score \in Int /\ sl.node[o].score \in Int
      BY <1>4
    <2>3. CASE n = o
      BY <2>1, <2>2, <2>3
    <2>4. CASE n # o
      <3>1. pos[n] # pos[o]
        BY <1>2, <2>4
      <3>2. sl.node[n].score # sl.node[o].score
        <4>1. sl.node[n].val # sl.node[o].val
          BY <1>7, <2>4
        <4> QED BY <1>5, <4>1 DEF Exact, Ties
      <3>3. pos[n] < pos[o] => sl.node[n].score <= sl.node[o].score
        BY <1>1 DEF Ordered
      <3>4. pos[o] < pos[n] => sl.node[o].score <= sl.node[n].score
        BY <1>1 DEF Ordered
      <3> DEFINE a == sl.node[n].score
                 b == sl.node[o].score
      <3>5. a \in Int /\ b \in Int /\ a # b /\ (pos[n] < pos[o] => a <= b)
            /\ (pos[o] < pos[n] => b <= a)
        BY <2>2, <3>2, <3>3, <3>4
      <3> HIDE DEF a, b
      <3>6. pos[n] <= pos[o] <=> a <= b
        BY <2>1, <3>1, <3>5
      <3> QED BY <3>6 DEF a, b
    <2> QED BY <2>3, <2>4
  <1> QED BY <1>2, <1>3, <1>4, <1>5, <1>6, <1>7, <1>8

\* Then the rank a member has by the dictionary is its place in the list.
LEMMA RankIsPlace ==
    ASSUME NEW pos, NEW N, Exact(pos, N), NEW n \in Elements(sl)
    PROVE  RankIn(sl.node[n].val) = pos[n]
  <1> DEFINE m == sl.node[n].val
             p == pos[n]
             A == {o \in DOMAIN dict : dict[o] <= dict[m]}
             g == [k \in 1..p |-> sl.node[Order(sl)[k]].val]
  <1>1. p \in 1..N /\ N \in Nat /\ m \in DOMAIN dict /\ dict[m] = sl.node[n].score
    BY ExactParts
  <1>2. ASSUME NEW k \in 1..p
        PROVE  /\ Order(sl)[k] \in Elements(sl) /\ pos[Order(sl)[k]] = k
               /\ g[k] \in A
    <2>1. k \in 1..N
      BY <1>1
    <2>2. Order(sl)[k] \in Elements(sl) /\ pos[Order(sl)[k]] = k
      BY <2>1, ExactParts
    <2>3. sl.node[Order(sl)[k]].score <= sl.node[n].score
      <3>1. pos[Order(sl)[k]] <= pos[n]
        BY <2>2
      <3> QED BY <2>2, <3>1, ExactParts
    <2>4. /\ sl.node[Order(sl)[k]].val \in DOMAIN dict
          /\ dict[sl.node[Order(sl)[k]].val] = sl.node[Order(sl)[k]].score
      BY <2>2, ExactParts
    <2> QED BY <1>1, <2>2, <2>3, <2>4
  <1>3. g \in [1..p -> A]
    <2>1. \A k \in 1..p : g[k] \in A
      BY <1>2
    <2>2. g = [k \in 1..p |-> g[k]]
      OBVIOUS
    <2> HIDE DEF g, A
    <2> QED BY <2>1, <2>2
  <1>4. ASSUME NEW j \in 1..p, NEW k \in 1..p, g[j] = g[k] PROVE j = k
    <2>1. Order(sl)[j] = Order(sl)[k]
      <3>1. sl.node[Order(sl)[j]].val = sl.node[Order(sl)[k]].val
        BY <1>4
      <3> QED BY <1>2, <3>1, ExactParts
    <2> QED BY <1>2, <2>1
  <1>5. ASSUME NEW o \in A PROVE \E k \in 1..p : g[k] = o
    <2>1. PICK x \in Elements(sl) : sl.node[x].val = o
      BY ExactParts
    <2>2. sl.node[x].score <= sl.node[n].score
      <3>1. dict[o] = sl.node[x].score /\ dict[o] <= dict[m]
        BY <2>1, ExactParts
      <3> QED BY <1>1, <3>1
    <2>3. pos[x] <= pos[n] /\ pos[x] \in 1..N /\ Order(sl)[pos[x]] = x
      BY <2>2, ExactParts
    <2>4. pos[x] \in 1..p
      BY <1>1, <2>3
    <2>5. g[pos[x]] = o
      BY <2>1, <2>3, <2>4
    <2> QED BY <2>4, <2>5
  <1>6. g \in Bijection(1..p, A)
    <2> HIDE DEF g, A, p
    <2> QED BY <1>3, <1>4, <1>5, Fun_IsBij
  <1>7. Cardinality(1..p) = p /\ IsFiniteSet(1..p)
    <2>1. p \in Int /\ p >= 1
      BY <1>1
    <2> HIDE DEF p
    <2> QED BY <2>1, FS_Interval
  <1>8. Cardinality(A) = p
    <2>1. ExistsBijection(1..p, A)
      <3> HIDE DEF g, A, p
      <3> QED BY <1>6, Fun_ExistsBij
    <2> HIDE DEF A, p
    <2> QED BY <1>7, <2>1, FS_Bijection
  <1> QED BY <1>8 DEF RankIn

LEMMA RankAnswerExact ==
    ASSUME NEW pos, NEW N, Exact(pos, N), NEW n \in Elements(sl)
    PROVE  GetMemRank(sl.node[n].val) = pos[n]
  <1> DEFINE m == sl.node[n].val
             r == GetRank(sl, dict[m], m)
  <1>1. m \in DOMAIN dict /\ dict[m] = sl.node[n].score
    BY ExactParts
  <1>2. \/ r = Position(sl, n)
        \/ r = 0 /\ \E o \in Elements(sl) \ {n} : sl.node[o].score = sl.node[n].score
    <2>1. RankExactOrLost
      BY LaidRankExactOrLost DEF Exact, Clean
    <2> QED BY <1>1, <2>1 DEF RankExactOrLost
  <1>3. ASSUME NEW o \in Elements(sl) \ {n}, sl.node[o].score = sl.node[n].score
        PROVE  FALSE
    <2>1. pos[o] <= pos[n] /\ pos[n] <= pos[o] /\ pos[o] \in 1..N /\ pos[n] \in 1..N /\ N \in Nat
      <3>1. sl.node[o].score <= sl.node[n].score /\ sl.node[n].score <= sl.node[o].score
        BY <1>3, ExactParts
      <3> QED BY <3>1, ExactParts
    <2>2. pos[o] = pos[n]
      BY <2>1
    <2>3. Order(sl)[pos[o]] = o /\ Order(sl)[pos[n]] = n
      BY ExactParts
    <2> QED BY <1>3, <2>2, <2>3
  <1>4. Position(sl, n) = pos[n]
    <2>1. NodesOK(sl) /\ PlacesOK(sl, pos, N) /\ Linked(sl, pos, N)
      BY LaidParts DEF Exact
    <2>2. n \in DOMAIN sl.node
      BY DEF Elements
    <2> QED BY <2>1, <2>2, OrderIs
  <1>5. r = pos[n]
    BY <1>2, <1>3, <1>4
  <1> QED BY <1>1, <1>5 DEF GetMemRank

LEMMA RankAnswered ==
    ASSUME FileInv, table => sl.tail # NULL, NEW m \in Member
    PROVE  LET answer == ProcessDbRankQuery(m) IN
           IF m \notin DOMAIN dict THEN answer = NoFind
           ELSE /\ answer.score = dict[m]
                /\ \/ answer.rank = RankIn(m)
                   \/ tied /\ (answer.rank # 0 => sl.node[Order(sl)[answer.rank]].val = m)
  <1>1. CASE m \notin DOMAIN dict
    BY <1>1 DEF ProcessDbRankQuery
  <1>2. CASE m \in DOMAIN dict
    <2> DEFINE r == GetRank(sl, dict[m], m)
    <2>1. table
      BY <1>2 DEF FileInv, PhaseOK
    <2>2. ProcessDbRankQuery(m) = [rank |-> r, score |-> dict[m], val |-> m]
      BY <1>2, <2>1 DEF ProcessDbRankQuery, GetMemRank
    <2> HIDE DEF r
    <2>3. PICK pos, N : Laid(sl, pos, N)
      BY DEF FileInv, WellLaid
    <2>4. CASE tied
      <3> SUFFICES ASSUME r # 0 PROVE sl.node[Order(sl)[r]].val = m
        BY <1>2, <2>2, <2>4
      <3>1. PICK n \in Elements(sl) : sl.node[n].val = m /\ r = pos[n]
        BY <2>3, RankIsOwn DEF r
      <3>2. Order(sl)[pos[n]] = n
        BY <2>3, LaidParts, OrderIs
      <3> QED BY <3>1, <3>2
    <2>5. CASE ~ tied
      <3>1. Exact(pos, N)
        BY <2>3, <2>5, InvParts DEF Exact, FileInv, TieOK
      <3>2. PICK n \in Elements(sl) : sl.node[n].val = m
        BY <1>2, <3>1, ExactParts
      <3>3. dict[m] = sl.node[n].score
        BY <3>1, <3>2, ExactParts
      <3>4. r = pos[n]
        <4>1. GetMemRank(m) = pos[n]
          BY <3>1, <3>2, RankAnswerExact
        <4> QED BY <1>2, <4>1 DEF GetMemRank, r
      <3>5. RankIn(m) = pos[n]
        BY <3>1, <3>2, RankIsPlace
      <3> QED BY <1>2, <2>2, <3>4, <3>5
    <2> QED BY <2>4, <2>5
  <1> QED BY <1>1, <1>2

\* An iterator passes the places from its node on.
UpTo(N, j) == IF j < N THEN j ELSE N

LEMMA WalkIs ==
    ASSUME NEW pos, NEW N, Exact(pos, N), NEW n \in Elements(sl), NEW k \in Nat
    PROVE  Walk(n, k) = SubSeq(Order(sl), pos[n], UpTo(N, pos[n] + k - 1))
  <1> DEFINE c == Order(sl)
             D == Elements(sl) \cup {NULL}
             Ahead(x, j) == IF x = NULL THEN << >> ELSE SubSeq(c, pos[x], UpTo(N, pos[x] + j - 1))
             Body(f, j, x) == IF j = 0 \/ x = NULL THEN << >>
                              ELSE <<x>> \o f[j - 1][Forward(sl, x, 1)]
  <1>1. /\ N \in Nat /\ c \in Seq(Elements(sl)) /\ Len(c) = N
        /\ \A x \in Elements(sl) : pos[x] \in 1..N /\ c[pos[x]] = x
    BY ExactParts
  <1>2. \A x \in Elements(sl) :
           /\ Forward(sl, x, 1) = NULL => pos[x] = N
           /\ Forward(sl, x, 1) # NULL => /\ Forward(sl, x, 1) \in Elements(sl)
                                          /\ pos[Forward(sl, x, 1)] = pos[x] + 1
    <2>1. NodesOK(sl) /\ PlacesOK(sl, pos, N) /\ Linked(sl, pos, N)
      BY LaidParts DEF Exact
    <2> QED BY <2>1, LowestLevel DEF Elements
  <1>3. NULL \notin Elements(sl)
    BY LaidParts, AddressAssumption DEF Exact, NodesOK
  <1> HIDE DEF c
  <1>4. ASSUME NEW x \in Elements(sl) PROVE Ahead(x, 0) = << >>
    <2>1. pos[x] \in Int /\ UpTo(N, pos[x] + 0 - 1) = pos[x] - 1
      BY <1>1 DEF UpTo
    <2>2. SubSeq(c, pos[x], pos[x] - 1) = << >>
      BY <2>1, SubSeqEmpty
    <2> QED BY <1>3, <2>1, <2>2
  <1>5. ASSUME NEW x \in Elements(sl), NEW j \in Nat \ {0}
        PROVE  Ahead(x, j) = <<x>> \o Ahead(Forward(sl, x, 1), j - 1)
    <2> DEFINE p == pos[x]
               q == UpTo(N, p + j - 1)
    <2>1. p \in 1..N /\ q \in p..N
      BY <1>1 DEF UpTo
    <2>2. SubSeq(c, p, q) = <<c[p]>> \o SubSeq(c, p + 1, q)
      <3> HIDE DEF p, q
      <3> QED BY <1>1, <2>1, SubSeqRecursiveFirst
    <2>3. c[p] = x /\ Ahead(x, j) = SubSeq(c, p, q)
      BY <1>1, <1>3
    <2>4. SubSeq(c, p + 1, q) = Ahead(Forward(sl, x, 1), j - 1)
      <3>1. CASE Forward(sl, x, 1) = NULL
        <4>1. p = N /\ q = N /\ p + 1 \in Int /\ q \in Int /\ q < p + 1
          BY <1>1, <1>2, <2>1, <3>1
        <4>2. SubSeq(c, p + 1, q) = << >>
          <5> HIDE DEF p, q
          <5> QED BY <4>1, SubSeqEmpty
        <4> QED BY <3>1, <4>2
      <3>2. CASE Forward(sl, x, 1) # NULL
        <4>1. pos[Forward(sl, x, 1)] = p + 1
          BY <1>2, <3>2
        <4>2. (p + 1) + (j - 1) - 1 = p + j - 1
          BY <1>1, <2>1
        <4> QED BY <3>2, <4>1, <4>2
      <3> QED BY <3>1, <3>2
    <2> HIDE DEF p, q, Ahead
    <2> QED BY <2>2, <2>3, <2>4
  <1> DEFINE g == [j \in 0..k |-> [x \in D |-> Ahead(x, j)]]
  <1>6. g = [j \in 0..k |-> [x \in D |-> Body(g, j, x)]]
    <2>1. ASSUME NEW j \in 0..k, NEW x \in D PROVE Ahead(x, j) = Body(g, j, x)
      <3>1. CASE x = NULL
        BY <3>1
      <3>2. CASE x \in Elements(sl) /\ j = 0
        <4> HIDE DEF Ahead, g
        <4> QED BY <1>3, <1>4, <3>2
      <3>3. CASE x \in Elements(sl) /\ j # 0
        <4>1. j \in Nat \ {0} /\ j - 1 \in 0..k /\ Forward(sl, x, 1) \in D /\ x # NULL
          BY <1>2, <1>3, <3>3
        <4>2. g[j - 1][Forward(sl, x, 1)] = Ahead(Forward(sl, x, 1), j - 1)
          <5> HIDE DEF Ahead, D
          <5> QED BY <4>1
        <4>3. Ahead(x, j) = <<x>> \o Ahead(Forward(sl, x, 1), j - 1)
          BY <1>5, <3>3, <4>1
        <4> HIDE DEF Ahead, g
        <4> QED BY <3>3, <4>1, <4>2, <4>3
      <3> QED BY <3>1, <3>2, <3>3
    <2>2. \A j \in 0..k : [x \in D |-> Ahead(x, j)] = [x \in D |-> Body(g, j, x)]
      <3> HIDE DEF Ahead, Body, g, D
      <3> QED BY <2>1
    <2>3. [j \in 0..k |-> [x \in D |-> Ahead(x, j)]] = [j \in 0..k |-> [x \in D |-> Body(g, j, x)]]
      <3> HIDE DEF Ahead, Body, g, D
      <3> QED BY <2>2
    <2> HIDE DEF Body, Ahead
    <2> QED BY <2>3
  <1> DEFINE from == CHOOSE h : h = [j \in 0..k |-> [x \in D |-> Body(h, j, x)]]
  <1>7. from = [j \in 0..k |-> [x \in D |-> Body(from, j, x)]]
    <2>1. \E h : h = [j \in 0..k |-> [x \in D |-> Body(h, j, x)]]
      <3> HIDE DEF g, Body, D
      <3> QED BY <1>6
    <2> HIDE DEF Body, D
    <2> QED BY <2>1
  <1>8. Walk(n, k) = from[k][n]
    BY DEF Walk
  <1> HIDE DEF from
  <1>9. ASSUME NEW j \in 0..k, NEW x \in D PROVE from[j][x] = Body(from, j, x)
    <2> HIDE DEF Body, D
    <2> QED BY <1>7
  <1> DEFINE S == {j \in Nat : j \in 0..k => \A x \in D : from[j][x] = Ahead(x, j)}
  <1>10. 0 \in S
    <2> SUFFICES ASSUME NEW x \in D PROVE from[0][x] = Ahead(x, 0)
      OBVIOUS
    <2>1. from[0][x] = << >>
      <3>1. 0 \in 0..k
        OBVIOUS
      <3>2. from[0][x] = Body(from, 0, x)
        <4> HIDE DEF Body, D
        <4> QED BY <1>9, <3>1
      <3> QED BY <3>2
    <2>2. Ahead(x, 0) = << >>
      <3>1. CASE x = NULL
        BY <3>1
      <3>2. CASE x \in Elements(sl)
        BY <1>4, <3>2
      <3> QED BY <3>1, <3>2
    <2> HIDE DEF Ahead
    <2> QED BY <2>1, <2>2
  <1>11. ASSUME NEW j \in Nat, j \in S PROVE j + 1 \in S
    <2> SUFFICES ASSUME j + 1 \in 0..k, NEW x \in D PROVE from[j + 1][x] = Ahead(x, j + 1)
      OBVIOUS
    <2>1. CASE x = NULL
      <3>1. from[j + 1][x] = << >>
        BY <1>9, <2>1
      <3> QED BY <2>1, <3>1
    <2>2. CASE x \in Elements(sl)
      <3>1. /\ j \in 0..k /\ (j + 1) - 1 = j /\ j + 1 # 0 /\ x # NULL
            /\ Forward(sl, x, 1) \in D /\ j + 1 \in Nat \ {0}
        BY <1>2, <1>3, <2>2
      <3>2. from[j][Forward(sl, x, 1)] = Ahead(Forward(sl, x, 1), j)
        <4> HIDE DEF Ahead, D
        <4> QED BY <1>11, <3>1
      <3>3. from[j + 1][x] = <<x>> \o from[j][Forward(sl, x, 1)]
        <4>1. from[j + 1][x] = Body(from, j + 1, x)
          BY <1>9
        <4> QED BY <3>1, <4>1
      <3>4. Ahead(x, j + 1) = <<x>> \o Ahead(Forward(sl, x, 1), (j + 1) - 1)
        BY <1>5, <2>2, <3>1
      <3> HIDE DEF Ahead
      <3> QED BY <3>1, <3>2, <3>3, <3>4
    <2> QED BY <2>1, <2>2
  <1>12. \A j \in Nat : j \in S
    <2> HIDE DEF S
    <2> QED BY <1>10, <1>11, Upward
  <1>13. from[k][n] = Ahead(n, k)
    <2>1. k \in S /\ k \in 0..k /\ n \in D
      BY <1>12
    <2> HIDE DEF Ahead, D
    <2> QED BY <2>1
  <1> QED BY <1>3, <1>8, <1>13 DEF c

\* The members at the places from a to b, ranked from any number on.
LEMMA WindowAnswered ==
    ASSUME NEW pos, NEW N, Exact(pos, N), NEW a \in 1..N, NEW b \in a..N, NEW first \in Int
    PROVE  ToSet(Ranked(SubSeq(Order(sl), a, b), first)) =
           Truth({m \in DOMAIN dict : a <= RankIn(m) /\ RankIn(m) <= b}, a - first)
  <1> DEFINE c == Order(sl)
             s == SubSeq(c, a, b)
             M == {m \in DOMAIN dict : a <= RankIn(m) /\ RankIn(m) <= b}
             Entry(m) == [rank |-> RankIn(m) - (a - first), score |-> dict[m], val |-> m]
             r == Ranked(s, first)
  <1>1. /\ N \in Nat
        /\ \A k \in 1..N : c[k] \in Elements(sl) /\ pos[c[k]] = k
    BY ExactParts
  <1>2. a \in Int /\ b \in Int /\ 1 <= a /\ a <= b /\ b <= N
    BY <1>1
  <1>3. DOMAIN s = 1..b - a + 1 /\ \A i \in 1..b - a + 1 : s[i] = c[a + i - 1]
    <2>1. \A i \in a..b : c[i] \in Elements(sl)
      BY <1>1, <1>2
    <2>2. /\ s \in Seq(Elements(sl)) /\ Len(s) = b - a + 1
          /\ \A i \in 1..b - a + 1 : s[i] = c[a + i - 1]
      <3> HIDE DEF c
      <3> QED BY <1>2, <2>1, SubSeqProperties
    <2> HIDE DEF s
    <2> QED BY <2>2
  <1> HIDE DEF s
  <1>4. ASSUME NEW n \in Elements(sl), NEW k, k = pos[n]
        PROVE  /\ sl.node[n].val \in DOMAIN dict /\ RankIn(sl.node[n].val) = k
               /\ Item(n, k - (a - first)) = Entry(sl.node[n].val)
    <2>1. /\ sl.node[n].val \in DOMAIN dict /\ dict[sl.node[n].val] = sl.node[n].score
      BY ExactParts
    <2>2. RankIn(sl.node[n].val) = k
      BY <1>4, RankIsPlace
    <2> QED BY <2>1, <2>2 DEF Item
  <1>5. DOMAIN r = 1..b - a + 1
        /\ \A i \in 1..b - a + 1 : r[i] = Item(c[a + i - 1], first + i - 1)
    BY <1>3 DEF Ranked
  <1> HIDE DEF r
  <1>6. ASSUME NEW i \in 1..b - a + 1 PROVE \E m \in M : r[i] = Entry(m)
    <2> DEFINE k == a + i - 1
               m == sl.node[c[k]].val
    <2>1. k \in 1..N /\ a <= k /\ k <= b /\ first + i - 1 = k - (a - first)
      BY <1>2, <1>1
    <2>2. c[k] \in Elements(sl) /\ pos[c[k]] = k
      BY <1>1, <2>1
    <2>3. m \in DOMAIN dict /\ RankIn(m) = k /\ Item(c[k], k - (a - first)) = Entry(m)
      <3> HIDE DEF Entry, c
      <3> QED BY <1>4, <2>2
    <2>4. r[i] = Entry(m)
      BY <1>5, <2>1, <2>3
    <2>5. m \in M
      BY <2>1, <2>3
    <2> QED BY <2>4, <2>5
  <1>7. ASSUME NEW m \in M PROVE \E i \in 1..b - a + 1 : r[i] = Entry(m)
    <2>1. PICK n \in Elements(sl) : sl.node[n].val = m
      BY ExactParts
    <2> DEFINE k == pos[n]
               i == k - a + 1
    <2>2. k \in 1..N /\ c[k] = n
      BY ExactParts
    <2>3. RankIn(m) = k /\ Item(n, k - (a - first)) = Entry(m)
      <3> HIDE DEF Entry
      <3> QED BY <1>4, <2>1
    <2>4. a <= k /\ k <= b
      BY <2>3
    <2>5. i \in 1..b - a + 1 /\ a + i - 1 = k /\ first + i - 1 = k - (a - first)
      BY <1>2, <2>2, <2>4
    <2>6. r[i] = Item(c[a + i - 1], first + i - 1)
      BY <1>5, <2>5
    <2>7. r[i] = Entry(m)
      BY <2>2, <2>3, <2>5, <2>6
    <2> QED BY <2>5, <2>7
  <1>8. {r[i] : i \in DOMAIN r} = {Entry(m) : m \in M}
    <2> HIDE DEF M, Entry
    <2> QED BY <1>5, <1>6, <1>7
  <1> QED BY <1>8 DEF ToSet, Truth, r, s

\* A table that serves is the exact list until two members share a score.
LEMMA ServedExact ==
    ASSUME FileInv, ~ tied
    PROVE  \E pos, N : Exact(pos, N) /\ Laid(sl, pos, N) /\ (N = 0 <=> sl.tail = NULL)
  <1>1. PICK pos, N : Laid(sl, pos, N)
    BY DEF FileInv, WellLaid
  <1>2. Exact(pos, N)
    BY <1>1, InvParts DEF Exact, FileInv, TieOK
  <1>3. N = 0 <=> sl.tail = NULL
    <2>1. Mirrored(sl, pos, N) /\ NodesOK(sl) /\ N \in Nat
      BY <1>1, LaidParts DEF PlacesOK
    <2>2. NULL \notin Elements(sl)
      BY <2>1, AddressAssumption DEF NodesOK
    <2> QED BY <2>1, <2>2 DEF Mirrored
  <1> QED BY <1>1, <1>2, <1>3

\* All ranks are places.
LEMMA RanksArePlaces ==
    ASSUME NEW pos, NEW N, Exact(pos, N), NEW m \in DOMAIN dict
    PROVE  RankIn(m) \in 1..N
  <1>1. PICK n \in Elements(sl) : sl.node[n].val = m
    BY ExactParts
  <1>2. RankIn(m) = pos[n]
    BY <1>1, RankIsPlace
  <1> QED BY <1>2, ExactParts

\* The first node of a range of ranks, by its place.
LEMMA FirstByRank ==
    ASSUME FileInv, ~ tied, table => sl.tail # NULL, NEW pos, NEW N, Exact(pos, N),
           N = 0 <=> sl.tail = NULL, NEW min \in QueryRank, NEW max \in QueryRank
    PROVE  LET k == IF min = 0 THEN 1 ELSE min
           IN  IF table /\ k \in 1..N /\ min <= max /\ k <= max
               THEN GetMemsFirstByRank(min, max) = Order(sl)[k]
               ELSE GetMemsFirstByRank(min, max) = NULL
  <1> DEFINE c == Order(sl)
             k == IF min = 0 THEN 1 ELSE min
  <1>1. N \in Nat /\ DOMAIN c = 1..N /\ Len(c) = N
    BY ExactParts
  <1>2. min \in Nat /\ max \in Nat /\ Laid(sl, pos, N)
    BY RankAssumption DEF Exact, QueryRank
  <1>3. FirstInRangeByIdx(sl, min, max) =
          CASE c = << >>                               -> SEGV
            [] k \in DOMAIN c /\ min <= max /\ k <= max -> c[k]
            [] OTHER                                   -> NULL
    BY <1>2, LaidIndexed
  <1> HIDE DEF c, k
  <1>4. CASE ~ table
    BY <1>4 DEF GetMemsFirstByRank, c, k
  <1>5. CASE table
    <2>1. c # << >>
      <3>1. N # 0
        BY <1>5
      <3> QED BY <1>1, <3>1
    <2>2. CASE k \in 1..N /\ min <= max /\ k <= max
      BY <1>1, <1>3, <1>5, <2>1, <2>2 DEF GetMemsFirstByRank, c, k
    <2>3. CASE ~ (k \in 1..N /\ min <= max /\ k <= max)
      BY <1>1, <1>3, <1>5, <2>1, <2>3 DEF GetMemsFirstByRank, c, k
    <2> QED BY <2>2, <2>3
  <1> QED BY <1>4, <1>5

LEMMA NobodyAsked ==
    ASSUME NEW shift PROVE Truth({}, shift) = {}
  <1> DEFINE Entry(m) == [rank |-> RankIn(m) - shift, score |-> dict[m], val |-> m]
  <1>1. {Entry(m) : m \in {}} = {}
    <2> HIDE DEF Entry
    <2> QED OBVIOUS
  <1> QED BY <1>1 DEF Truth

LEMMA Single ==
    ASSUME NEW E, NEW s \in Seq(E), Len(s) = 1 PROVE s = <<s[1]>>
  <1>1. Len(<<s[1]>>) = 1 /\ <<s[1]>>[1] = s[1] /\ s[1] \in E
    OBVIOUS
  <1>2. <<s[1]>> \in Seq(E)
    BY <1>1
  <1> QED BY <1>1, <1>2, SeqEqual

\* The unsigned count of a range of ranks is 0 for the widest alone.
LEMMA RangeCount ==
    ASSUME NEW min \in QueryRank, NEW max \in QueryRank, min <= max
    PROVE  (max - min + 1) % RankMod =
             IF min = 0 /\ max = RankMod - 1 THEN 0 ELSE max - min + 1
  <1> DEFINE n == max - min + 1
  <1>1. /\ RankMod \in Nat \ {0} /\ n \in 1..RankMod
        /\ n = RankMod <=> min = 0 /\ max = RankMod - 1
    BY RankAssumption DEF QueryRank
  <1>2. CASE n = RankMod
    BY <1>1, <1>2
  <1>3. CASE n < RankMod
    <2> HIDE DEF n
    <2>1. n % RankMod = n
      BY <1>1, <1>3
    <2> QED BY <1>1, <1>3, <2>1 DEF n
  <1> QED BY <1>1, <1>2, <1>3

LEMMA RankRangeAnswered ==
    ASSUME FileInv, ~ tied, table => sl.tail # NULL,
           NEW min \in QueryRank, NEW max \in QueryRank
    PROVE  ToSet(ProcessDbRangeByRank(min, max)) =
             IF min = 0 /\ max = RankMod - 1 THEN {}
             ELSE IF min = 0 /\ max > 0
             THEN Truth({m \in DOMAIN dict : RankIn(m) <= max + 1}, 1)
             ELSE Truth({m \in DOMAIN dict : min <= RankIn(m) /\ RankIn(m) <= max}, 0)
  <1>1. PICK pos, N : Exact(pos, N) /\ Laid(sl, pos, N) /\ (N = 0 <=> sl.tail = NULL)
    BY ServedExact
  <1> DEFINE c == Order(sl)
             k == IF min = 0 THEN 1 ELSE min
             first == GetMemsFirstByRank(min, max)
             b == UpTo(N, k + max - min)
             Asked == IF min = 0 /\ max > 0 THEN {m \in DOMAIN dict : RankIn(m) <= max + 1}
                      ELSE {m \in DOMAIN dict : min <= RankIn(m) /\ RankIn(m) <= max}
             Found == {m \in DOMAIN dict : k <= RankIn(m) /\ RankIn(m) <= b}
             shift == IF min = 0 /\ max > 0 THEN 1 ELSE 0
             found == table /\ k \in 1..N /\ min <= max /\ k <= max
  <1>2. /\ N \in Nat /\ min \in Nat /\ max \in Nat /\ k \in Nat /\ k >= 1
        /\ \A i \in 1..N : c[i] \in Elements(sl) /\ pos[c[i]] = i
        /\ NULL \notin Elements(sl)
    <2>1. NodesOK(sl)
      BY <1>1, LaidParts
    <2>2. N \in Nat /\ \A i \in 1..N : c[i] \in Elements(sl) /\ pos[c[i]] = i
      BY <1>1, ExactParts
    <2>3. min \in Nat /\ max \in Nat
      BY <1>1, ExactParts DEF QueryRank
    <2> QED BY <2>1, <2>2, <2>3, AddressAssumption DEF NodesOK
  <1>3. \A m \in DOMAIN dict : RankIn(m) \in 1..N
    BY <1>1, RanksArePlaces
  <1>4. IF found THEN first = c[k] ELSE first = NULL
    BY <1>1, FirstByRank
  <1>5. ~ table => DOMAIN dict = {}
    BY DEF FileInv, PhaseOK
  <1>8. CASE min = 0 /\ max = RankMod - 1
    <2>1. (max - min + 1) % RankMod = 0
      BY <1>2, <1>8, RangeCount
    <2>2. CASE first = NULL
      <3>1. ProcessDbRangeByRank(min, max) = << >>
        BY <2>2 DEF ProcessDbRangeByRank
      <3> QED BY <3>1, <1>8 DEF ToSet
    <2>3. CASE first # NULL
      <3>1. ProcessDbRangeByRank(min, max) = Ranked(Walk(first, 0), min)
        BY <2>1, <2>3 DEF ProcessDbRangeByRank
      <3>2. first \in Elements(sl) /\ pos[first] = 1 /\ N >= 1
        BY <1>2, <1>4, <1>8, <2>3
      <3>3. Walk(first, 0) = << >>
        <4> HIDE DEF first
        <4>1. 0 \in Nat /\ UpTo(N, pos[first] + 0 - 1) = 0
          BY <1>2, <3>2 DEF UpTo
        <4>2. Walk(first, 0) = SubSeq(Order(sl), 1, 0)
          BY <1>1, <3>2, <4>1, WalkIs
        <4>3. SubSeq(Order(sl), 1, 0) = << >>
          BY SubSeqEmpty
        <4> QED BY <4>2, <4>3
      <3>4. Ranked(<< >>, min) = << >>
        BY DEF Ranked
      <3>5. ProcessDbRangeByRank(min, max) = << >>
        BY <3>1, <3>3, <3>4
      <3> QED BY <3>5, <1>8 DEF ToSet
    <2> QED BY <2>2, <2>3
  <1> SUFFICES ASSUME ~ (min = 0 /\ max = RankMod - 1)
               PROVE  ToSet(ProcessDbRangeByRank(min, max)) = Truth(Asked, shift)
    <2>1. CASE min = 0 /\ max > 0
      BY <1>8, <2>1
    <2>2. CASE ~ (min = 0 /\ max > 0)
      BY <1>8, <2>2
    <2> QED BY <2>1, <2>2
  <1> HIDE DEF first, c
  <1>6. CASE found
    <2>1. first = c[k] /\ c[k] \in Elements(sl) /\ pos[c[k]] = k /\ first # NULL
      BY <1>2, <1>4, <1>6
    <2>2. ProcessDbRangeByRank(min, max) = Ranked(Walk(first, max - min + 1), min)
      <3>1. (max - min + 1) % RankMod = max - min + 1
        BY <1>6, RangeCount
      <3> QED BY <2>1, <3>1 DEF ProcessDbRangeByRank, first
    <2>3. Walk(first, max - min + 1) = SubSeq(c, k, b)
      <3>1. max - min + 1 \in Nat /\ k + (max - min + 1) - 1 = k + max - min
        BY <1>2, <1>6
      <3> QED BY <1>1, <2>1, <3>1, WalkIs DEF c
    <2>4. k \in 1..N /\ b \in k..N /\ min \in Int
      BY <1>2, <1>6 DEF UpTo
    <2>5. ToSet(Ranked(SubSeq(c, k, b), min)) = Truth(Found, k - min)
      <3> HIDE DEF k, b
      <3> QED BY <1>1, <2>4, WindowAnswered DEF c
    <2>6. k - min = shift /\ Found = Asked
      <3>1. CASE min = 0
        <4>1. max > 0 /\ k = 1 /\ b = UpTo(N, max + 1)
          BY <1>2, <1>6, <3>1
        <4>2. \A m \in DOMAIN dict : m \in Found <=> m \in Asked
          BY <1>2, <1>3, <3>1, <4>1 DEF UpTo
        <4> QED BY <3>1, <4>1, <4>2
      <3>2. CASE min # 0
        <4>1. k = min /\ b = UpTo(N, max)
          BY <1>2, <3>2
        <4>2. \A m \in DOMAIN dict : m \in Found <=> m \in Asked
          BY <1>2, <1>3, <3>2, <4>1 DEF UpTo
        <4> QED BY <1>2, <3>2, <4>1, <4>2
      <3> QED BY <3>1, <3>2
    <2> QED BY <2>2, <2>3, <2>5, <2>6
  <1>7. CASE ~ found
    <2>1. first = NULL
      BY <1>4, <1>7
    <2>2. ProcessDbRangeByRank(min, max) = << >>
      BY <2>1 DEF ProcessDbRangeByRank, first
    <2>3. ASSUME NEW m \in Asked PROVE FALSE
      <3>1. m \in DOMAIN dict /\ RankIn(m) \in 1..N /\ table
        BY <1>3, <1>5
      <3>2. CASE min = 0 /\ max > 0
        BY <1>2, <1>7, <3>1, <3>2
      <3>3. CASE ~ (min = 0 /\ max > 0)
        BY <1>2, <1>7, <3>1, <3>3
      <3> QED BY <3>2, <3>3
    <2>4. Truth(Asked, shift) = {}
      <3>1. Asked = {}
        <4> HIDE DEF Asked
        <4> QED BY <2>3
      <3> HIDE DEF Asked, shift
      <3>2. Truth({}, shift) = {}
        BY NobodyAsked
      <3> QED BY <3>1, <3>2
    <2>5. ToSet(ProcessDbRangeByRank(min, max)) = {}
      BY <2>2 DEF ToSet
    <2> HIDE DEF Asked, shift
    <2> QED BY <2>4, <2>5
  <1> QED BY <1>6, <1>7

LEMMA TopAnswered ==
    ASSUME FileInv, ~ tied, table => sl.tail # NULL, NEW top \in QueryRank
    PROVE  ToSet(ProcessDbTopQuery(top).items) = Truth({m \in DOMAIN dict : RankIn(m) = top}, 0)
  <1>1. PICK pos, N : Exact(pos, N) /\ Laid(sl, pos, N) /\ (N = 0 <=> sl.tail = NULL)
    BY ServedExact
  <1> DEFINE c == Order(sl)
             n == GetMemsFirstByRank(top, top)
             Asked == {m \in DOMAIN dict : RankIn(m) = top}
  <1>2. /\ N \in Nat /\ top \in Nat
        /\ c \in Seq(Elements(sl)) /\ Len(c) = N
        /\ \A i \in 1..N : c[i] \in Elements(sl) /\ pos[c[i]] = i
        /\ NULL \notin Elements(sl)
    <2>1. NodesOK(sl)
      BY <1>1, LaidParts
    <2>2. /\ N \in Nat /\ c \in Seq(Elements(sl)) /\ Len(c) = N
          /\ \A i \in 1..N : c[i] \in Elements(sl) /\ pos[c[i]] = i
      BY <1>1, ExactParts
    <2>3. top \in Nat
      BY <1>1, ExactParts DEF QueryRank
    <2> QED BY <2>1, <2>2, <2>3, AddressAssumption DEF NodesOK
  <1>3. IF table /\ top \in 1..N THEN n = c[top] ELSE n = NULL
    <2>1. CASE top = 0
      BY <1>1, <2>1, FirstByRank
    <2>2. CASE top # 0
      BY <1>1, <1>2, <2>2, FirstByRank
    <2> QED BY <2>1, <2>2, <1>2
  <1> HIDE DEF n, c
  <1>4. CASE table /\ top \in 1..N
    <2>1. n = c[top] /\ n \in Elements(sl) /\ pos[n] = top /\ n # NULL
      BY <1>2, <1>3, <1>4
    <2>2. ProcessDbTopQuery(top).items = <<Item(n, top)>>
      BY <2>1 DEF ProcessDbTopQuery, n
    <2>3. SubSeq(c, top, top) = <<n>>
      <3>1. /\ Len(SubSeq(c, top, top)) = 1 /\ SubSeq(c, top, top)[1] = n
            /\ SubSeq(c, top, top) \in Seq(Elements(sl))
        <4>1. top \in Int /\ \A i \in top..top : c[i] \in Elements(sl)
          BY <1>2, <1>4
        <4>2. /\ SubSeq(c, top, top) \in Seq(Elements(sl))
              /\ Len(SubSeq(c, top, top)) = IF top <= top THEN top - top + 1 ELSE 0
              /\ \A i \in 1..top - top + 1 : SubSeq(c, top, top)[i] = c[top + i - 1]
          BY <4>1, SubSeqProperties
        <4>3. top - top + 1 = 1 /\ top <= top /\ top + 1 - 1 = top
          BY <1>2
        <4> QED BY <4>2, <4>3, <2>1
      <3> QED BY <3>1, Single
    <2>4. Ranked(<<n>>, top) = <<Item(n, top)>>
      <3>1. top + 1 - 1 = top
        BY <1>2
      <3>2. DOMAIN <<n>> = 1..1 /\ <<n>>[1] = n
        OBVIOUS
      <3>3. \A i \in 1..1 : i = 1
        OBVIOUS
      <3>4. [i \in 1..1 |-> Item(<<n>>[i], top + i - 1)] = [i \in 1..1 |-> Item(n, top)]
        BY <3>1, <3>2, <3>3
      <3> QED BY <3>2, <3>4 DEF Ranked
    <2>5. ToSet(Ranked(SubSeq(c, top, top), top)) =
            Truth({m \in DOMAIN dict : top <= RankIn(m) /\ RankIn(m) <= top}, top - top)
      <3>1. top \in 1..N /\ top \in top..N /\ top \in Int
        BY <1>2, <1>4
      <3> QED BY <1>1, <3>1, WindowAnswered DEF c
    <2>6. {m \in DOMAIN dict : top <= RankIn(m) /\ RankIn(m) <= top} = Asked
      <3>1. \A m \in DOMAIN dict : RankIn(m) \in Nat
        BY <1>1, <1>2, RanksArePlaces
      <3> QED BY <1>2, <3>1
    <2>7. top - top = 0
      BY <1>2
    <2>8. ToSet(<<Item(n, top)>>) = Truth(Asked, 0)
      BY <2>3, <2>4, <2>5, <2>6, <2>7
    <2> QED BY <2>2, <2>8
  <1>5. CASE ~ (table /\ top \in 1..N)
    <2>1. ProcessDbTopQuery(top).items = << >>
      BY <1>3, <1>5 DEF ProcessDbTopQuery, n
    <2>2. Asked = {}
      <3>1. \A m \in DOMAIN dict : RankIn(m) \in 1..N /\ table
        BY <1>1, RanksArePlaces DEF FileInv, PhaseOK
      <3> QED BY <1>5, <3>1
    <2>3. Truth(Asked, 0) = {}
      <3> HIDE DEF Asked
      <3> QED BY <2>2, NobodyAsked
    <2> QED BY <2>1, <2>3 DEF ToSet
  <1> QED BY <1>4, <1>5

LEMMA LeastAndGreatest ==
    ASSUME NEW S \in SUBSET Int, S # {}, NEW N \in Nat, \A k \in S : k \in 1..N
    PROVE  Min(S) \in S /\ Max(S) \in S /\ \A k \in S : Min(S) <= k /\ k <= Max(S)
  <1>1. \E i \in S : \A j \in S : i <= j
    <2>1. S \in SUBSET Nat
      OBVIOUS
    <2> QED BY <2>1, LeastElement
  <1>2. \E i \in S : \A j \in S : i >= j
    <2> DEFINE T == {N - k : k \in S}
    <2>1. T \in SUBSET Nat /\ T # {}
      <3>1. \A k \in S : N - k \in Nat
        OBVIOUS
      <3> QED BY <3>1
    <2>2. PICK t \in T : \A u \in T : t <= u
      <3> HIDE DEF T
      <3> QED BY <2>1, LeastElement
    <2>3. PICK i \in S : t = N - i
      OBVIOUS
    <2>4. ASSUME NEW j \in S PROVE i >= j
      <3>1. N - i <= N - j
        BY <2>2, <2>3
      <3>2. i \in Int /\ j \in Int
        OBVIOUS
      <3> QED BY <3>1, <3>2
    <2> QED BY <2>4
  <1>3. Min(S) \in S /\ \A k \in S : Min(S) <= k
    BY <1>1 DEF Min
  <1>4. Max(S) \in S /\ \A k \in S : Max(S) >= k
    BY <1>2 DEF Max
  <1> QED BY <1>3, <1>4

LEMMA ScoreRangeAnswered ==
    ASSUME FileInv, ~ tied, table => sl.tail # NULL,
           NEW min \in QueryScore, NEW max \in QueryScore
    PROVE  LET answer == ProcessDbRangeByScore(min, max)
               asked  == {m \in DOMAIN dict : dict[m] \in min..max \cup max..min}
           IN  /\ ToSet(answer.items) = Truth(asked, 0)
               /\ answer.ret = FAIL <=> asked = {}
  <1>1. PICK pos, N : Exact(pos, N) /\ Laid(sl, pos, N) /\ (N = 0 <=> sl.tail = NULL)
    BY ServedExact
  <1> DEFINE c == Order(sl)
             score(n) == sl.node[n].score
             low == Low(min, max)
             high == High(min, max)
             hits == {k \in DOMAIN c : score(c[k]) \in min..max \cup max..min}
             asked == {m \in DOMAIN dict : dict[m] \in min..max \cup max..min}
             first == IF table THEN FirstInRangeByScore(sl, min, max) ELSE NULL
             last == LastInRangeByScore(sl, min, max)
             answer == ProcessDbRangeByScore(min, max)
  <1>2. /\ N \in Nat /\ N <= Cardinality(Node) /\ Cardinality(Node) \in Nat
        /\ c \in Seq(Elements(sl)) /\ Len(c) = N /\ DOMAIN c = 1..N
        /\ \A i \in 1..N : c[i] \in Elements(sl) /\ pos[c[i]] = i
        /\ \A n \in Elements(sl) : pos[n] \in 1..N /\ c[pos[n]] = n
        /\ NULL \notin Elements(sl)
    <2>1. NodesOK(sl)
      BY <1>1, LaidParts
    <2>2. /\ N \in Nat /\ N <= Cardinality(Node) /\ Cardinality(Node) \in Nat
          /\ c \in Seq(Elements(sl)) /\ Len(c) = N /\ DOMAIN c = 1..N
          /\ \A i \in 1..N : c[i] \in Elements(sl) /\ pos[c[i]] = i
          /\ \A n \in Elements(sl) : pos[n] \in 1..N /\ c[pos[n]] = n
      BY <1>1, ExactParts
    <2> QED BY <2>1, <2>2, AddressAssumption DEF NodesOK
  <1>3. min..max \cup max..min = low..high /\ low \in Int /\ high \in Int
    BY QueryAssumption DEF Low, High
  <1>4. \A n \in Elements(sl) : score(n) \in Int /\ sl.node[n].val \in DOMAIN dict
                                /\ dict[sl.node[n].val] = score(n)
    BY <1>1, ExactParts
  <1>5. table => Order(sl) # << >>
    <2>1. table => N # 0
      BY <1>1
    <2> QED BY <1>2, <2>1
  <1>6. table => IF hits = {} THEN first = NULL ELSE first = c[Min(hits)] /\ last = c[Max(hits)]
    <2>1. ScoreRangeExact
      BY <1>1, LaidScoreRangeExact
    <2> QED BY <1>5, <2>1 DEF ScoreRangeExact
  <1> HIDE DEF first, last, c, low, high
  <1>7. \A k : k \in hits <=> k \in 1..N /\ low <= score(c[k]) /\ score(c[k]) <= high
    <2>1. \A k \in 1..N : score(c[k]) \in Int
      BY <1>2, <1>4
    <2> QED BY <2>1, <1>2, <1>3
  <1>8. \A n \in Elements(sl) : sl.node[n].val \in asked <=> pos[n] \in hits
    <2> SUFFICES ASSUME NEW n \in Elements(sl) PROVE sl.node[n].val \in asked <=> pos[n] \in hits
      OBVIOUS
    <2>1. pos[n] \in 1..N /\ c[pos[n]] = n /\ score(n) \in Int
      BY <1>2, <1>4
    <2>2. sl.node[n].val \in asked <=> low <= score(n) /\ score(n) <= high
      BY <1>3, <1>4, <2>1
    <2> HIDE DEF hits, asked
    <2> QED BY <1>7, <2>1, <2>2
  <1>9. \A m \in DOMAIN dict : \E n \in Elements(sl) : sl.node[n].val = m
    BY <1>1, ExactParts
  <1>10. table \/ asked = {}
    BY DEF FileInv, PhaseOK
  <1> SUFFICES ToSet(answer.items) = Truth(asked, 0) /\ (answer.ret = FAIL <=> asked = {})
    OBVIOUS
  <1>11. CASE ~ table \/ hits = {}
    <2>1. first = NULL
      BY <1>6, <1>11 DEF first
    <2>2. answer = [ret |-> FAIL, items |-> << >>]
      BY <2>1 DEF ProcessDbRangeByScore, first
    <2>3. asked = {}
      <3>1. CASE ~ table
        BY <1>10, <3>1
      <3>2. CASE hits = {}
        <4> SUFFICES ASSUME NEW m \in asked PROVE FALSE
          OBVIOUS
        <4>1. PICK n \in Elements(sl) : sl.node[n].val = m
          BY <1>9
        <4> HIDE DEF hits, asked
        <4> QED BY <1>8, <3>2, <4>1
      <3> QED BY <1>11, <3>1, <3>2
    <2>4. ToSet(answer.items) = {}
      BY <2>2 DEF ToSet
    <2>5. Truth(asked, 0) = {}
      <3> HIDE DEF asked
      <3> QED BY <2>3, NobodyAsked
    <2>6. answer.ret = FAIL
      BY <2>2
    <2> HIDE DEF asked, answer
    <2> QED BY <2>3, <2>4, <2>5, <2>6
  <1>12. CASE table /\ hits # {}
    <2> DEFINE a == Min(hits)
               b == Max(hits)
               rest == Walk(first, Cardinality(Node))
               upTo == SubSeq(rest, 1, CHOOSE i \in DOMAIN rest : rest[i] = last)
               m == sl.node[first].val
    <2>1. /\ a \in hits /\ b \in hits /\ \A k \in hits : a <= k /\ k <= b
      <3> HIDE DEF hits
      <3>1. hits \in SUBSET Int /\ hits # {} /\ \A k \in hits : k \in 1..N
        BY <1>2, <1>7, <1>12
      <3> QED BY <3>1, <1>2, LeastAndGreatest
    <2>2. first = c[a] /\ last = c[b]
      <3> HIDE DEF hits
      <3> QED BY <1>6, <1>12
    <2> HIDE DEF a, b, hits
    <2>3. a \in 1..N /\ b \in a..N
      BY <1>2, <1>7, <2>1
    <2>4. /\ first \in Elements(sl) /\ pos[first] = a /\ first # NULL
          /\ last \in Elements(sl) /\ pos[last] = b
      BY <1>2, <2>2, <2>3
    <2>5. rest = SubSeq(c, a, N)
      <3>1. UpTo(N, a + Cardinality(Node) - 1) = N
        BY <1>2, <2>3 DEF UpTo
      <3>2. Walk(first, Cardinality(Node)) = SubSeq(c, a, UpTo(N, a + Cardinality(Node) - 1))
        <4>1. Cardinality(Node) \in Nat /\ first \in Elements(sl) /\ pos[first] = a
          BY <1>2, <2>4
        <4>2. Walk(first, Cardinality(Node)) =
                SubSeq(c, pos[first], UpTo(N, pos[first] + Cardinality(Node) - 1))
          BY <1>1, <4>1, WalkIs DEF c
        <4> QED BY <4>1, <4>2
      <3> QED BY <3>1, <3>2
    <2> HIDE DEF rest
    <2>6. DOMAIN rest = 1..N - a + 1 /\ \A i \in 1..N - a + 1 : rest[i] = c[a + i - 1]
      <3>1. \A i \in a..N : c[i] \in Elements(sl)
        BY <1>2, <2>3
      <3>2. /\ rest \in Seq(Elements(sl)) /\ Len(rest) = N - a + 1
            /\ \A i \in 1..N - a + 1 : rest[i] = c[a + i - 1]
        BY <1>2, <2>3, <2>5, <3>1, SubSeqProperties
      <3> QED BY <3>2
    <2>7. (CHOOSE i \in DOMAIN rest : rest[i] = last) = b - a + 1
      <3>1. b - a + 1 \in DOMAIN rest /\ rest[b - a + 1] = last
        <4>1. b - a + 1 \in 1..N - a + 1 /\ a + (b - a + 1) - 1 = b
          BY <1>2, <2>3
        <4> QED BY <2>2, <2>6, <4>1
      <3>2. \A i \in DOMAIN rest : rest[i] = last => i = b - a + 1
        <4> SUFFICES ASSUME NEW i \in 1..N - a + 1, c[a + i - 1] = last PROVE i = b - a + 1
          BY <2>6
        <4>1. a + i - 1 \in 1..N
          BY <1>2, <2>3
        <4>2. a + i - 1 = b
          BY <1>2, <2>4, <4>1
        <4> QED BY <1>2, <2>3, <4>2
      <3> QED BY <3>1, <3>2
    <2>8. upTo = SubSeq(c, a, b)
      <3>1. SubSeq(rest, 1, b - a + 1) = SubSeq(c, a + 1 - 1, a + (b - a + 1) - 1)
        <4>1. /\ a \in 1..Len(c) /\ N \in 1..Len(c)
              /\ 1 \in 1..N - a + 1 /\ b - a + 1 \in 1..N - a + 1
          BY <1>2, <2>3
        <4> QED BY <1>2, <2>5, <4>1, SubSeqOfSubSeq
      <3>2. a + 1 - 1 = a /\ a + (b - a + 1) - 1 = b
        BY <1>2, <2>3
      <3> QED BY <2>7, <3>1, <3>2
    <2>9. m \in DOMAIN dict /\ GetMemRank(m) = a
      BY <1>1, <1>4, <2>4, RankAnswerExact
    <2>10. answer = [ret |-> SUCCESS, items |-> Ranked(upTo, GetMemRank(m))]
      BY <2>4, <2>9 DEF ProcessDbRangeByScore, first, last, rest
    <2> HIDE DEF upTo, m
    <2>11. ToSet(answer.items) = Truth({o \in DOMAIN dict : a <= RankIn(o) /\ RankIn(o) <= b}, 0)
      <3>1. ToSet(Ranked(SubSeq(c, a, b), a)) =
              Truth({o \in DOMAIN dict : a <= RankIn(o) /\ RankIn(o) <= b}, a - a)
        BY <1>1, <1>2, <2>3, WindowAnswered DEF c
      <3>2. a - a = 0
        BY <1>2, <2>3
      <3>3. answer.items = Ranked(SubSeq(c, a, b), a)
        BY <2>8, <2>9, <2>10
      <3> QED BY <3>1, <3>2, <3>3
    <2>12. {o \in DOMAIN dict : a <= RankIn(o) /\ RankIn(o) <= b} = asked
      <3>1. ASSUME NEW o \in DOMAIN dict
            PROVE  a <= RankIn(o) /\ RankIn(o) <= b <=> o \in asked
        <4>1. PICK n \in Elements(sl) : sl.node[n].val = o
          BY <1>9
        <4>2. RankIn(o) = pos[n] /\ pos[n] \in 1..N /\ c[pos[n]] = n
          BY <1>1, <1>2, <4>1, RankIsPlace
        <4>3. o \in asked <=> pos[n] \in hits
          <5> HIDE DEF asked
          <5> QED BY <1>8, <4>1
        <4>4. pos[n] \in hits => a <= pos[n] /\ pos[n] <= b
          BY <2>1
        <4>5. ASSUME a <= pos[n], pos[n] <= b PROVE pos[n] \in hits
          <5>1. score(first) <= score(n) /\ score(n) <= score(last)
            BY <1>1, <2>4, <4>5, ExactParts
          <5>2. low <= score(first) /\ score(last) <= high
            BY <1>7, <2>1, <2>2
          <5>3. score(first) \in Int /\ score(n) \in Int /\ score(last) \in Int
            BY <1>4, <2>4
          <5>4. low <= score(n) /\ score(n) <= high
            <6> HIDE DEF score
            <6> QED BY <1>3, <5>1, <5>2, <5>3
          <5> QED BY <1>7, <4>2, <5>4
        <4> HIDE DEF asked
        <4> QED BY <4>2, <4>3, <4>4, <4>5
      <3>2. \A o : o \in asked => o \in DOMAIN dict
        OBVIOUS
      <3> HIDE DEF asked
      <3> QED BY <3>1, <3>2
    <2>13. asked # {}
      <3>1. sl.node[first].val \in asked
        <4> HIDE DEF asked
        <4> QED BY <1>8, <2>1, <2>4
      <3> QED BY <3>1
    <2>14. answer.ret # FAIL
      BY <2>10 DEF SUCCESS, FAIL
    <2> HIDE DEF asked
    <2> QED BY <2>11, <2>12, <2>13, <2>14
  <1> QED BY <1>11, <1>12

LEMMA InvRequestsAnswered == FileInv => RequestsAnswered
  <1> SUFFICES ASSUME FileInv, phase = "serving", table => sl.tail # NULL
               PROVE  RequestsAnswered
    BY DEF RequestsAnswered
  <1>1. \A m \in Member : LET answer == ProcessDbRankQuery(m) IN
          IF m \notin DOMAIN dict THEN answer = NoFind
          ELSE /\ answer.score = dict[m]
               /\ \/ answer.rank = RankIn(m)
                  \/ tied /\ (answer.rank # 0 => sl.node[Order(sl)[answer.rank]].val = m)
    BY RankAnswered
  <1>2. ASSUME ~ tied, NEW min \in QueryRank, NEW max \in QueryRank
        PROVE  /\ ToSet(ProcessDbRangeByRank(min, max)) =
                    IF min = 0 /\ max = RankMod - 1 THEN {}
                    ELSE IF min = 0 /\ max > 0
                    THEN Truth({m \in DOMAIN dict : RankIn(m) <= max + 1}, 1)
                    ELSE Truth({m \in DOMAIN dict : min <= RankIn(m) /\ RankIn(m) <= max}, 0)
               /\ ToSet(ProcessDbTopQuery(min).items) =
                    Truth({m \in DOMAIN dict : RankIn(m) = min}, 0)
    BY <1>2, RankRangeAnswered, TopAnswered
  <1>3. ASSUME ~ tied, NEW min \in QueryScore, NEW max \in QueryScore
        PROVE  LET answer == ProcessDbRangeByScore(min, max)
                   asked  == {m \in DOMAIN dict : dict[m] \in min..max \cup max..min}
               IN  /\ ToSet(answer.items) = Truth(asked, 0)
                   /\ answer.ret = FAIL <=> asked = {}
    BY <1>3, ScoreRangeAnswered
  <1> QED BY <1>1, <1>2, <1>3 DEF RequestsAnswered

\* In every state of the server the handlers answer from the dictionary alone,
\* also after a restart, as long as no two members share a score, for every
\* rank an unsigned number can hold and but for the one range whose count wraps
\* to 0 (server.cpp:179); and never with the rank of another member.
THEOREM RequestsExact == FileSpec => []RequestsAnswered
  <1> QED BY InvRequestsAnswered, FileAlways, PTL
=============================================================================
