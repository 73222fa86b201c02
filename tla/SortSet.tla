------------------------------- MODULE SortSet -------------------------------
(***************************************************************************)
(* The sorted set of bis/src/server/sort_set.{h,cpp}: a dictionary from    *)
(* member to score beside the skip list that orders the members.  Every    *)
(* operation changes both, the list through SkipList's operators.          *)
(***************************************************************************)
EXTENDS SkipList

VARIABLE dict

vars == <<sl, dict>>

With(d, m, s) == [x \in DOMAIN d \cup {m} |-> IF x = m THEN s ELSE d[x]]

Without(d, m) == [x \in DOMAIN d \ {m} |-> d[x]]

-----------------------------------------------------------------------------
(* Updates.                                                                 *)

\* The part of sort_set::Insert behind its test: L and d are the list and the
\* dictionary at the call, m is not in d.
InsertInto(L, d, s, m) ==
    /\ dict' = With(d, m, s)
    /\ \E lvl \in 1..MaxLevel, x \in Node \ DOMAIN L.node :
            sl' = InsertNode(L, s, m, lvl, x)

\* Insert, as CheckDbFileAndLoad calls it: a member that is present is refused.
Insert_(s, m) ==
    \/ m \in DOMAIN dict /\ UNCHANGED vars
    \/ m \notin DOMAIN dict /\ InsertInto(sl, dict, s, m)

UpdateDictOnly(s, m) ==
    IF m \in DOMAIN dict
    THEN dict' = With(dict, m, s) /\ UNCHANGED sl
    ELSE InsertInto(sl, dict, s, m)

UpdateKeepingNode(s, m) ==
    IF m \in DOMAIN dict /\ dict[m] = s
    THEN UNCHANGED vars
    ELSE InsertInto(sl, dict, s, m)

\* Update, as db::Insert calls it: a member with another score is deleted, as
\* DelMem does, the result of Delete ignored, and inserted anew.
Update(s, m) ==
    \/ m \notin DOMAIN dict /\ InsertInto(sl, dict, s, m)
    \/ /\ m \in DOMAIN dict
       /\ dict[m] # s
       /\ InsertInto(DeleteMember(sl, dict[m], m), Without(dict, m), s, m)
    \/ m \in DOMAIN dict /\ dict[m] = s /\ UNCHANGED vars

DelMem(m) ==
    \/ m \notin DOMAIN dict /\ UNCHANGED vars
    \/ /\ m \in DOMAIN dict
       /\ sl' = DeleteMember(sl, dict[m], m)
       /\ dict' = Without(dict, m)

Init == SLInit /\ dict = [m \in {} |-> 0]

Next ==
    \/ \E s \in Score, m \in Member : Insert_(s, m) \/ Update(s, m)
    \/ \E m \in Member : DelMem(m)

Spec == Init /\ [][Next]_vars

-----------------------------------------------------------------------------
(* Queries.                                                                 *)

ABSENT == "absent"

GetMemRank(m) == IF m \in DOMAIN dict THEN GetRank(sl, dict[m], m) ELSE ABSENT

-----------------------------------------------------------------------------
(* Properties.                                                              *)

Fields == {"score", "val", "backward", "level"}

\* The type of the data the set stores; LinksOK gives that of the links.
TypeOK ==
    /\ head_ \in DOMAIN sl.node /\ Elements(sl) \subseteq Node
    /\ \A n \in DOMAIN sl.node : DOMAIN sl.node[n] = Fields
    /\ \A n \in Elements(sl) : /\ sl.node[n].score \in Score
                               /\ sl.node[n].val \in Member
    /\ sl.level \in 1..MaxLevel /\ sl.lenth \in Nat
    /\ DOMAIN dict \subseteq Member /\ dict \in [DOMAIN dict -> Score]

Holds(n, s, m) == sl.node[n].score = s /\ sl.node[n].val = m

\* Whatever Delete misses and Update inserts again, a member of the dictionary
\* stands in the list under the score of the dictionary: rank and range
\* queries do not lose it.
DictInList ==
    \A m \in DOMAIN dict : \E n \in Elements(sl) : Holds(n, dict[m], m)
=============================================================================
