------------------------- MODULE SkipListProperties -------------------------
(***************************************************************************)
(* The invariants of the heap SkipList maintains, whoever drives it: the   *)
(* list on its own (MCSkipList) or a table that is saved and loaded        *)
(* (MCTableFile); and the abstract list that the heap implements.          *)
(***************************************************************************)
EXTENDS SkipList, Sequences, SequencesExt

\* Addresses are numbers of a fixed width.
ASSUME AddressesFinite == IsFiniteSet(Node)

\* The nodes of level i in the order the links give.  The bound on the length
\* cuts a cycle, which ChainsNested then reports.
Chain(L, i) ==
    LET on == {n \in DOMAIN L.node : i \in DOMAIN L.node[n].level}
        bound == Cardinality(Node) + 1
        after[at \in [node : on, left : 0..bound]] ==
            LET next == Forward(L, at.node, i)
            IN  IF at.left = 0 \/ next = NULL THEN << >>
                ELSE <<next>> \o after[[node |-> next, left |-> at.left - 1]]
    IN  after[[node |-> head_, left |-> bound]]

Order(L) == Chain(L, 1)

\* The bounds of queries.
CONSTANT QueryScore

ASSUME QueryAssumption == QueryScore \subseteq Int

Position(L, n) == IF n = head_ THEN 0
                  ELSE CHOOSE k \in DOMAIN Order(L) : Order(L)[k] = n

-----------------------------------------------------------------------------
(* Type invariant: links lead to nodes of the heap that reach that level.   *)
LinksOK ==
    /\ Elements(sl) \subseteq Node /\ head_ \in DOMAIN sl.node
    /\ sl.level \in 1..MaxLevel /\ sl.lenth \in Nat
    /\ sl.tail \in Elements(sl) \cup {NULL}
    /\ \A n \in Elements(sl) : /\ sl.node[n].score \in Score
                               /\ sl.node[n].val \in Member
                               /\ sl.node[n].backward \in Elements(sl) \cup {NULL}
    /\ \A n \in DOMAIN sl.node : \A i \in DOMAIN sl.node[n].level :
            /\ sl.node[n].level[i].span \in Nat
            /\ LET next == Forward(sl, n, i)
               IN  next # NULL => next \in Elements(sl) /\ i \in DOMAIN sl.node[next].level

\* Insert and Delete splice every level consistently: the lowest level holds
\* every allocated node exactly once (none is lost or freed twice), and level i
\* is the subsequence of it made of the nodes that tall.  Levels above level_
\* are empty.
ChainsNested ==
    /\ IsInjective(Order(sl)) /\ ToSet(Order(sl)) = Elements(sl)
    /\ \A i \in 1..MaxLevel :
          LET chain == Chain(sl, i)
              place == [j \in DOMAIN chain |-> Position(sl, chain[j])]
          IN  /\ ToSet(chain) = {n \in Elements(sl) : i \in DOMAIN sl.node[n].level}
              /\ \A j, k \in DOMAIN place : j < k => place[j] < place[k]
    /\ \A i \in sl.level + 1..MaxLevel : Forward(sl, head_, i) = NULL

\* The spans Insert and DeleteNode maintain are the distances their links
\* cross, on every level, although lenth_, from which the span of a new level
\* starts, is counted up by DeleteNode: the error stays on links to NULL.
SpansAreDistances ==
    \A n \in DOMAIN sl.node : \A i \in DOMAIN sl.node[n].level :
        LET next == Forward(sl, n, i)
        IN  next # NULL => sl.node[n].level[i].span = Position(sl, next) - Position(sl, n)

\* backward and tail_, which Insert and DeleteNode fix apart from the forward
\* links, describe the same list read from its end.
BackwardMirrorsForward ==
    /\ sl.tail = IF Order(sl) = << >> THEN NULL ELSE Last(Order(sl))
    /\ \A k \in DOMAIN Order(sl) :
          sl.node[Order(sl)[k]].backward = IF k = 1 THEN NULL ELSE Order(sl)[k - 1]

\* The links stay well formed even when nodes of members deleted or moved
\* remain in the list: Insert and DeleteNode rely on nothing but the order.
HeapWellFormed ==
    LinksOK /\ ChainsNested /\ SpansAreDistances /\ BackwardMirrorsForward

\* FirstInRangeByIdx returns the member at position min of the order (the first
\* one for 0), and end() for positions past the list, whatever lenth_ has
\* drifted to.
IndexExact ==
    \A min \in 0..Cardinality(Node) + 1, max \in 0..Cardinality(Node) + 1 :
        FirstInRangeByIdx(sl, min, max) =
            LET k == IF min = 0 THEN 1 ELSE min
            IN  CASE Order(sl) = << >>                      -> SEGV
                  [] k \in DOMAIN Order(sl) /\ min <= max /\ k <= max -> Order(sl)[k]
                  [] OTHER                                   -> NULL

\* FirstInRangeByScore and LastInRangeByScore delimit the members whose score
\* is in the range, in either order of the bounds: the assertion on x holds,
\* and where the first is found so is the last, so that ProcessDbRangeByScore,
\* which tests only the first, reaches the last by going forward.
ScoreRangeExact ==
    Order(sl) # << >> =>
      \A min \in QueryScore, max \in QueryScore :
        LET hits == {k \in DOMAIN Order(sl) :
                        sl.node[Order(sl)[k]].score \in min..max \cup max..min}
        IN  IF hits = {} THEN FirstInRangeByScore(sl, min, max) = NULL
            ELSE /\ FirstInRangeByScore(sl, min, max) = Order(sl)[Min(hits)]
                 /\ LastInRangeByScore(sl, min, max) = Order(sl)[Max(hits)]

\* GetRank gives a member its position, or 0 when another member shares its
\* score and the walk passed it; with no tie the position is exact.
RankExactOrLost ==
    \A n \in Elements(sl) :
        LET s == sl.node[n].score
            r == GetRank(sl, s, sl.node[n].val)
            tied == \E o \in Elements(sl) \ {n} : sl.node[o].score = s
        IN  r = Position(sl, n) \/ (r = 0 /\ tied)

-----------------------------------------------------------------------------
(* The heap implements the abstract list.                                   *)

\* The entries in order: the list the heap stands for.
ListOf(L) ==
    [k \in DOMAIN Order(L) |-> [score |-> L.node[Order(L)[k]].score,
                                val   |-> L.node[Order(L)[k]].val]]

Abstract == INSTANCE ScoredList WITH list <- ListOf(sl)

\* Every Insert and Delete of the heap is an Insert or Delete of ScoredList.
ImplementsScoredList == Abstract!Spec
=============================================================================
