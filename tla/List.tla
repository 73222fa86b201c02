-------------------------------- MODULE List --------------------------------
(***************************************************************************)
(* list.h: a doubly linked ring around the node nil, which the first push  *)
(* makes.  search and del before it read through a null pointer: no caller *)
(* calls them then.                                                        *)
(***************************************************************************)
EXTENDS Integers, Sequences, SequencesExt

CONSTANTS ListSize, ListVal     \* bounds: nodes there is memory for, values

NIL == 0
ListNode == 1..ListSize

VARIABLES
    nil,        \* "null", or "made"
    ring,       \* of each node: val, pre, next
    live,       \* nodes new has returned and delete has not freed
    pushed      \* history: what was pushed and not deleted, last pushed first

listVars == <<nil, ring, live, pushed>>

Links == [x \in ListNode \cup {NIL} |-> NIL]

Init ==
    /\ nil = "null" /\ live = {} /\ pushed = << >>
    /\ ring = [val |-> Links, pre |-> Links, next |-> Links]

\* stNew is any address not in use.
push(v) ==
    /\ nil' = "made"
    /\ \E stNew \in ListNode \ live :
        /\ live' = live \cup {stNew}
        /\ ring' = LET first == ring.next[NIL] IN
            [ring EXCEPT !.val[stNew] = v, !.next[stNew] = first, !.pre[stNew] = NIL,
                         !.pre[first] = stNew, !.next[NIL] = stNew]
    /\ pushed' = <<v>> \o pushed

search(v) ==
    LET from[x \in ListNode \cup {NIL}] ==
            IF x = NIL \/ ring.val[x] = v THEN x ELSE from[ring.next[x]]
    IN  from[ring.next[NIL]]

UnlinkForward(x) == [ring EXCEPT !.next[ring.pre[x]] = ring.next[x]]

Unlink(x) ==
    [ring EXCEPT !.next[ring.pre[x]] = ring.next[x], !.pre[ring.next[x]] = ring.pre[x]]

\* What freed memory holds does not matter: nothing reads it.
Freed(r, x) == [r EXCEPT !.val[x] = NIL, !.pre[x] = NIL, !.next[x] = NIL]

del(v) ==
    /\ nil = "made"
    /\ LET x == search(v) IN
        IF x = NIL THEN UNCHANGED <<ring, live>>
        ELSE ring' = Freed(Unlink(x), x) /\ live' = live \ {x}
    /\ pushed' = RemoveFirst(pushed, v)
    /\ UNCHANGED nil

Next == \E v \in ListVal : push(v) \/ del(v)

Spec == Init /\ [][Next]_listVars

-----------------------------------------------------------------------------
\* The nodes reached from nil by n steps along links.
Steps(links, n) ==
    LET at[i \in 0..n] == IF i = 0 THEN NIL ELSE links[at[i - 1]]
    IN  [i \in 1..n |-> at[i]]

\* Both ways round the ring meet the nodes in use, each once, and no freed one,
\* whatever was deleted and whichever address came back from new: forward the
\* last pushed first, without the first of each value that del was called with.
BothWaysRound ==
    LET n == Len(pushed)
        f == Steps(ring.next, n + 1)
        b == Steps(ring.pre, n + 1)
    IN  /\ f[n + 1] = NIL /\ b[n + 1] = NIL
        /\ {f[i] : i \in 1..n} = live
        /\ \A i \in 1..n : ring.val[f[i]] = pushed[i] /\ b[i] = f[n + 1 - i]
=============================================================================
