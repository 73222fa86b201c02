------------------------------ MODULE SkipList ------------------------------
(***************************************************************************)
(* The skip list of bis/src/server/skiplist.h: a heap of nodes linked      *)
(* forward on several levels, each link carrying its span, and backward on *)
(* the lowest one.  The list orders members by score; equal scores keep    *)
(* their order of insertion.                                               *)
(*                                                                         *)
(* A list is a value [node, tail, lenth, level], so that callers can chain *)
(* operations; the variable sl holds the list of the object under study.   *)
(* Levels are numbered from 1 here and from 0 in the code.  The random     *)
(* level of skRandomLevel and the address returned by the allocator are    *)
(* parameters of Insert, chosen by the caller of the operator.             *)
(***************************************************************************)
EXTENDS Integers, FiniteSets

CONSTANTS
    Score,      \* the scores, integers above the score of the head
    Member,     \* the members (data.val)
    Node,       \* the addresses the allocator can return
    head_,       \* the address of the head node
    NULL,       \* the null pointer, and the empty val of the head
    MaxLevel    \* MAXLEVEL

HeadScore == -1

ASSUME ScoreAssumption == Score \subseteq Int
ASSUME LevelAssumption == MaxLevel \in Nat \ {0}
ASSUME AddressAssumption == head_ \notin Node /\ NULL \notin Node \cup {head_}

VARIABLE sl

-----------------------------------------------------------------------------
(* Construction and the common walk of every operation.                    *)

\* SkipList() and InitHead: a head node of full height, no tail.
EmptyList ==
    [ node  |-> [n \in {head_} |->
                   [ score    |-> HeadScore,
                     val      |-> NULL,
                     backward |-> NULL,
                     level    |-> [i \in 1..MaxLevel |->
                                     [forward |-> NULL, span |-> 0]] ]],
      tail  |-> NULL,
      lenth |-> 0,
      level |-> 1 ]

Elements(L) == DOMAIN L.node \ {head_}

Forward(L, n, i) == L.node[n].level[i].forward

Span(L, n, i) == L.node[n].level[i].span

\* Where the walk can be on level i: a node, and the spans crossed until it.
Spot(L, i) ==
    [node : {n \in DOMAIN L.node : i \in DOMAIN L.node[n].level}, rank : Nat]

\* The inner loop of all operations: along level i while there is a next node
\* and the operation's test holds.  It holds at the spots in on.
Along(L, i, on) ==
    LET from[at \in Spot(L, i)] ==
            IF Forward(L, at.node, i) # NULL /\ at \in on
            THEN from[[node |-> Forward(L, at.node, i),
                       rank |-> at.rank + Span(L, at.node, i)]]
            ELSE at
    IN  from

\* The outer loop: from the head on the highest level in use down to the
\* lowest.  Descend(...)[i] is where the walk leaves level i.
Descend(L, On) ==
    LET path[i \in 1..L.level] ==
            Along(L, i, On[i])[IF i = L.level THEN [node |-> head_, rank |-> 0]
                                              ELSE path[i + 1]]
    IN  path

\* The test that the next node is one of N.
Onto(L, N) ==
    [i \in 1..MaxLevel |-> {at \in Spot(L, i) : Forward(L, at.node, i) \in N}]

\* Insert and Delete walk past the lower scores and, within the score itself,
\* past the other members.
BeforeIgnoringTies(L, s, m, n) == L.node[n].score < s

Before(L, s, m, n) ==
    \/ L.node[n].score < s
    \/ L.node[n].score = s /\ L.node[n].val # m

PathTo(L, s, m) == Descend(L, Onto(L, {n \in Elements(L) : Before(L, s, m, n)}))

-----------------------------------------------------------------------------
(* Insert.                                                                  *)

\* The link of a new node on a level: what is left of the link it splits, gap
\* nodes of which lie before the new node.
SplitOffByOne(link, gap) == [link EXCEPT !.span = @ - gap - 1]

Split(link, gap) == [link EXCEPT !.span = @ - gap]

BackwardToHead(n) == n

BackwardTo(n) == IF n = head_ THEN NULL ELSE n

Top(L, lvl) == IF lvl > L.level THEN lvl ELSE L.level

\* update[], ranks[] and the links about to change: where the walk left each
\* level, the head on the levels the new node is the first to reach.
Predecessors(L, s, m, lvl) ==
    LET path == PathTo(L, s, m) IN
    [i \in 1..Top(L, lvl) |->
       IF i <= L.level
       THEN [node |-> path[i].node, rank |-> path[i].rank,
             link |-> L.node[path[i].node].level[i]]
       ELSE [node |-> head_, rank |-> 0,
             link |-> [forward |-> Forward(L, head_, i), span |-> L.lenth]]]

Gap(update, i) == update[1].rank - update[i].rank

\* The links of node n once x, of height lvl, is spliced in behind update.
LinksAfterInsert(L, update, lvl, x, n) ==
    [i \in DOMAIN L.node[n].level |->
       CASE i \notin DOMAIN update -> L.node[n].level[i]
         [] i \in DOMAIN update /\ update[i].node # n -> L.node[n].level[i]
         [] i \in DOMAIN update /\ update[i].node = n ->
              IF i <= lvl
              THEN [forward |-> x, span |-> Gap(update, i) + 1]
              ELSE [update[i].link EXCEPT !.span = @ + 1]]

\* A node whose links change; score and val never do.
Relinked(node, backward, level) ==
    [score |-> node.score, val |-> node.val,
     backward |-> backward, level |-> level]

\* Insert(score, val) with the random level lvl and the allocated address x.
InsertNode(L, s, m, lvl, x) ==
    LET update == Predecessors(L, s, m, lvl)
        next   == update[1].link.forward
        new    == [score    |-> s,
                   val      |-> m,
                   backward |-> BackwardTo(update[1].node),
                   level    |-> [i \in 1..lvl |->
                                   Split(update[i].link, Gap(update, i))]]
    IN  [ node  |-> [n \in DOMAIN L.node \cup {x} |->
                       IF n = x THEN new
                       ELSE Relinked(L.node[n],
                                     IF n = next THEN x
                                                 ELSE L.node[n].backward,
                                     LinksAfterInsert(L, update, lvl, x, n))],
          tail  |-> IF next = NULL THEN x ELSE L.tail,
          lenth |-> L.lenth + 1,
          level |-> Top(L, lvl) ]

-----------------------------------------------------------------------------
(* Delete.                                                                  *)

\* The links of node n once x is unlinked: one that led to x now leads past
\* it, and one that crossed x gets shorter.
LinksAfterDelete(L, x, update, n) ==
    [i \in DOMAIN L.node[n].level |->
       LET link == L.node[n].level[i] IN
       CASE i > L.level -> link
         [] i <= L.level /\ update[i].node # n -> link
         [] i <= L.level /\ update[i].node = n ->
              IF link.forward = x
              THEN [forward |-> Forward(L, x, i),
                    span    |-> link.span + L.node[x].level[i].span - 1]
              ELSE [link EXCEPT !.span = @ - 1]]

BackwardLeftDangling(L, x, n) == L.node[n].backward

BackwardAfterDelete(L, x, n) ==
    IF n = Forward(L, x, 1) THEN L.node[x].backward ELSE L.node[n].backward

\* level_ once the head has no link on the levels above it.
LevelOneTooLow(node, level) == IF level = 1 THEN 1 ELSE level - 1

LevelDownToZero(node, level) ==
    LET used == {0} \cup {i \in 1..level : node[head_].level[i].forward # NULL}
    IN  CHOOSE i \in used : \A j \in used : j <= i

LevelInUse(node, level) ==
    LET used == {1} \cup {i \in 1..level : node[head_].level[i].forward # NULL}
    IN  CHOOSE i \in used : \A j \in used : j <= i

\* DeleteNode and FreeNode: unlink x, whose predecessors the walk found, and
\* free it.  lenth grows, as it does in the code.
DeleteNode(L, x, update) ==
    LET node == [n \in DOMAIN L.node \ {x} |->
                   Relinked(L.node[n], BackwardAfterDelete(L, x, n),
                            LinksAfterDelete(L, x, update, n))]
    IN  [ node  |-> node,
          tail  |-> IF Forward(L, x, 1) = NULL THEN L.node[x].backward
                                               ELSE L.tail,
          lenth |-> L.lenth + 1,
          level |-> LevelInUse(node, L.level) ]

\* The node Delete(score, val) unlinks; NULL where it returns -1.
Target(L, s, m) ==
    LET x == Forward(L, PathTo(L, s, m)[1].node, 1)
    IN  IF x \in Elements(L) /\ L.node[x].score = s /\ L.node[x].val = m
        THEN x ELSE NULL

DeleteMember(L, s, m) ==
    LET x == Target(L, s, m)
    IN  IF x = NULL THEN L ELSE DeleteNode(L, x, PathTo(L, s, m))

-----------------------------------------------------------------------------
(* Queries.  An iterator is the node it stands on, NULL for end(); SEGV     *)
(* stands for the process dying on tail_->... when the list has no node.    *)

SEGV == "segv"

GetRankBelowScore(L, s, m) ==
    Descend(L, Onto(L, {n \in Elements(L) : L.node[n].score < s}))[1].rank

\* GetRank(score, val): climb over the scores not above score until the member
\* is reached; 0 when the walk ends elsewhere.
GetRank(L, s, m) ==
    LET isMember(n) == n # head_ /\ L.node[n].val = m
        on == [i \in 1..MaxLevel |->
                 {at \in Spot(L, i) : /\ ~ isMember(at.node)
                                      /\ L.node[Forward(L, at.node, i)].score <= s}]
        at == Descend(L, on)[1]
    IN  IF isMember(at.node) THEN at.rank ELSE 0

FirstInRangeByIdxPastMin(L, min, max) ==
    LET on == [i \in 1..MaxLevel |->
                 {at \in Spot(L, i) : at.rank + Span(L, at.node, i) <= min}]
        at == Descend(L, on)[1]
    IN  IF L.tail = NULL THEN SEGV ELSE Forward(L, at.node, 1)

\* FirstInRangeByIdx(Range(min, max)), ranks counted from 1.
FirstInRangeByIdx(L, min, max) ==
    LET on == [i \in 1..MaxLevel |->
                 {at \in Spot(L, i) : at.rank + Span(L, at.node, i) < min}]
        at == Descend(L, on)[1]
        x  == Forward(L, at.node, 1)
    IN  IF L.tail = NULL THEN SEGV
        ELSE IF \/ max < min
                \/ min > L.lenth
                \/ x = NULL
                \/ at.rank + 1 > max
             THEN NULL
             ELSE x

\* The bounds in order.  HighLost is the swap of the older copy of this file,
\* skiplist/src/skiplist.h, which loses the larger bound.
Low(min, max) == IF min > max THEN max ELSE min

HighLost(min, max) == max

High(min, max) == IF min > max THEN min ELSE max

\* FirstInRangeByScore(min, max); ABORT where assert(x != NULL) fails.
ABORT == "abort"

FirstInRangeByScore(L, min, max) ==
    LET low == Low(min, max)
        at  == Descend(L, Onto(L, {n \in Elements(L) : L.node[n].score < low}))[1]
        x   == Forward(L, at.node, 1)
    IN  CASE L.tail = NULL                          -> SEGV
          [] L.tail # NULL /\ low > L.node[L.tail].score -> NULL
          [] OTHER -> IF x = NULL THEN ABORT
                      ELSE IF L.node[x].score > High(min, max) THEN NULL
                      ELSE x

\* LastInRangeByScore(min, max): the walk may end on the head node.
LastInRangeByScore(L, min, max) ==
    LET low  == Low(min, max)
        high == High(min, max)
        x    == Descend(L, Onto(L, {n \in Elements(L) : L.node[n].score <= high}))[1].node
    IN  IF L.tail = NULL THEN SEGV
        ELSE IF low > L.node[L.tail].score THEN NULL
        ELSE IF high >= L.node[L.tail].score THEN L.tail
        ELSE IF L.node[x].score < low THEN NULL
        ELSE x

-----------------------------------------------------------------------------
(* The list as an object of its own, driven by callers that keep the rule   *)
(* above Insert: the member is not in the list.                             *)

Members(L) == {L.node[n].val : n \in Elements(L)}

Insert(s, m) ==
    /\ m \notin Members(sl)
    /\ \E lvl \in 1..MaxLevel, x \in Node \ DOMAIN sl.node :
            sl' = InsertNode(sl, s, m, lvl, x)

Delete(s, m) == sl' = DeleteMember(sl, s, m)

SLInit == sl = EmptyList

SLNext == \E s \in Score, m \in Member : Insert(s, m) \/ Delete(s, m)

SLSpec == SLInit /\ [][SLNext]_sl
=============================================================================
