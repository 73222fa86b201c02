----------------------------- MODULE ScoredList -----------------------------
(***************************************************************************)
(* What the skip list of bis/src/server/skiplist.h promises its callers: a *)
(* sequence of scored members, ordered by score and, within a score, by    *)
(* time of insertion, that rank and range queries read by position.        *)
(*                                                                         *)
(* The promise is the one the code can keep.  Delete is certain to find a  *)
(* member only if no other member has its score; among equal scores the    *)
(* walk may pass the member on a high level, and Delete then reports "not  *)
(* found" and leaves the sequence alone.                                   *)
(***************************************************************************)
EXTENDS Integers, Sequences, SequencesExt

CONSTANTS Score, Member

VARIABLE list

Entry == [score : Score, val : Member]

TypeOK == list \in Seq(Entry)

Init == list = << >>

\* A new entry goes behind those of its score and below, before those above.
Insert(s, m) ==
    /\ \A i \in DOMAIN list : list[i].val # m
    /\ \E k \in 1..Len(list) + 1 :
          /\ \A i \in DOMAIN list : list[i].score <= s <=> i < k
          /\ list' = InsertAt(list, k, [score |-> s, val |-> m])

\* The positions Delete can remove, none where the entry is absent.
At(s, m) == {i \in DOMAIN list : list[i] = [score |-> s, val |-> m]}

Tied(s, m) == \E i \in DOMAIN list : list[i].score = s /\ list[i].val # m

Delete(s, m) ==
    \/ \E i \in At(s, m) : list' = RemoveAt(list, i)
    \/ /\ At(s, m) = {} \/ Tied(s, m)
       /\ UNCHANGED list

Next == \E s \in Score, m \in Member : Insert(s, m) \/ Delete(s, m)

Spec == Init /\ [][Next]_list
=============================================================================
