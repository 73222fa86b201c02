------------------------------- MODULE Requests -------------------------------
(***************************************************************************)
(* The answers of the request handlers of bis/src/server/server.cpp, made  *)
(* through the queries of db.cpp, to requests about the table of           *)
(* TableFile.  A handler that only reads changes nothing, so each is an    *)
(* operator, and what is said of an answer is said of every state in which *)
(* a request can be handled.  ProcessDbSet is TableFile's DbInsert, once   *)
(* for each entry of the batch: the server has one thread, and nobody sees *)
(* the table between two of them.                                          *)
(***************************************************************************)
EXTENDS TableFile, SkipListProperties

CONSTANT RankMod    \* ranks are unsigned long long: numbers below 2^64

ASSUME RankAssumption == RankMod \in Nat \ {0}

SUCCESS == "success"
FAIL    == "fail"
NoFind  == "No Find!"

Item(n, rank) ==
    [rank |-> rank, score |-> sl.node[n].score, val |-> sl.node[n].val]

\* The nodes an iterator that starts on n passes, at most k of them.
Walk(n, k) ==
    LET from[j \in 0..k] ==
            [x \in Elements(sl) \cup {NULL} |->
                IF j = 0 \/ x = NULL THEN << >>
                ELSE <<x>> \o from[j - 1][Forward(sl, x, 1)]]
    IN  from[k][n]

\* Handlers count ranks from the one they give the first item.
Ranked(nodes, first) ==
    [i \in DOMAIN nodes |-> Item(nodes[i], first + i - 1)]

-----------------------------------------------------------------------------
ProcessDbGetScore(m) ==
    IF table /\ m \in DOMAIN dict THEN dict[m] ELSE NoFind

ProcessDbRankQuery(m) ==
    IF table /\ m \in DOMAIN dict
    THEN [rank |-> GetMemRank(m), score |-> dict[m], val |-> m]
    ELSE NoFind

\* The first node of a range of ranks, NULL for db's end().
GetMemsFirstByRank(min, max) ==
    IF table THEN FirstInRangeByIdx(sl, min, max) ELSE NULL

RangeByRankOneShort(min, max) ==
    LET first == GetMemsFirstByRank(min, max)
    IN  IF first = NULL THEN << >> ELSE Ranked(Walk(first, (max - min) % RankMod), min)

\* max - min + 1 items from the first on, in unsigned arithmetic, labelled from
\* min.  The FAIL of an empty answer is overwritten before it is sent.  Bounds
\* in the wrong order find nothing, so the handler's exchange of them comes too
\* late.
ProcessDbRangeByRank(min, max) ==
    LET first == GetMemsFirstByRank(min, max)
        num   == (max - min + 1) % RankMod
    IN  IF first = NULL THEN << >> ELSE Ranked(Walk(first, num), min)

\* From the first to the last node of a range of scores, the last included;
\* the label of the first is the rank the dictionary's score of its member has.
ProcessDbRangeByScore(min, max) ==
    LET first == IF table THEN FirstInRangeByScore(sl, min, max) ELSE NULL
        last  == LastInRangeByScore(sl, min, max)
        rest  == Walk(first, Cardinality(Node))
        upTo  == SubSeq(rest, 1, CHOOSE i \in DOMAIN rest : rest[i] = last)
        m     == sl.node[first].val
    IN  IF first = NULL THEN [ret |-> FAIL, items |-> << >>]
        ELSE [ret   |-> SUCCESS,
              items |-> Ranked(upTo, IF m \in DOMAIN dict THEN GetMemRank(m) ELSE 0)]

ProcessDbTopQuery(top) ==
    LET n == GetMemsFirstByRank(top, top)
    IN  IF n = NULL THEN [ret |-> FAIL, items |-> << >>]
        ELSE [ret |-> SUCCESS, items |-> <<Item(n, top)>>]

-----------------------------------------------------------------------------
(* Answers.                                                                 *)

RankIn(m) == Cardinality({o \in DOMAIN dict : dict[o] <= dict[m]})

Truth(M, shift) ==
    {[rank |-> RankIn(m) - shift, score |-> dict[m], val |-> m] : m \in M}

QueryRank == 0..RankMod - 1

\* Until two members share a score the handlers answer every request about
\* ranks and scores from the dictionary alone: exactly the members asked for,
\* each with its score and its rank.  A range of ranks that begins with 0 is
\* labelled one too low, and by that has room for one member more; the widest
\* of all, from 0 to the largest number, counts 0 items and is answered with
\* none.  After a tie a member's rank is still its own or 0, never the rank of
\* somebody else.
RequestsAnswered ==
    phase = "serving" /\ (table => sl.tail # NULL) =>
      /\ \A m \in Member : LET answer == ProcessDbRankQuery(m) IN
            IF m \notin DOMAIN dict THEN answer = NoFind
            ELSE /\ answer.score = dict[m]
                 /\ \/ answer.rank = RankIn(m)
                    \/ tied /\ (answer.rank # 0 => sl.node[Order(sl)[answer.rank]].val = m)
      /\ ~ tied => \A min, max \in QueryRank :
            /\ ToSet(ProcessDbRangeByRank(min, max)) =
                  IF min = 0 /\ max = RankMod - 1 THEN {}
                  ELSE IF min = 0 /\ max > 0
                  THEN Truth({m \in DOMAIN dict : RankIn(m) <= max + 1}, 1)
                  ELSE Truth({m \in DOMAIN dict : min <= RankIn(m) /\ RankIn(m) <= max}, 0)
            /\ ToSet(ProcessDbTopQuery(min).items) =
                  Truth({m \in DOMAIN dict : RankIn(m) = min}, 0)
      /\ ~ tied => \A min, max \in QueryScore :
            LET answer == ProcessDbRangeByScore(min, max)
                asked  == {m \in DOMAIN dict : dict[m] \in min..max \cup max..min}
            IN  /\ ToSet(answer.items) = Truth(asked, 0)
                /\ answer.ret = FAIL <=> asked = {}
=============================================================================
