---------------------------- MODULE MCContainers ----------------------------
(***************************************************************************)
(* TLC instance of the containers and of the two trees, which stand by     *)
(* themselves as well: each behaviour is about one of them, its subject.   *)
(***************************************************************************)
EXTENDS Containers, Trees, TLC

VARIABLE subject

\* Four keys, by the hashes 1, 3, 4 and 5: all but the third are in one bucket
\* of two, and the first and last in one of four.
MCHashed == [k \in 1..4 |-> <<1, 3, 4, 5>>[k]]

MCInit ==
    /\ subject \in {"tree", "rb", "hash", "list", "queue"}
    /\ B!Init /\ R!Init /\ H!Init /\ L!Init
    /\ Q!Init /\ data_ = [i \in 0..Size |-> CHOOSE v \in RingVal : TRUE]
    /\ subject # "queue" => covered = {}

MCNext ==
    /\ UNCHANGED subject
    /\ \/ /\ subject = "tree" /\ B!Next
          /\ UNCHANGED <<rb, hashVars, listVars, ringVars>>
       \/ /\ subject = "rb" /\ R!Next
          /\ UNCHANGED <<treeVars, hashVars, listVars, ringVars>>
       \/ /\ subject = "hash" /\ H!Next
          /\ UNCHANGED <<treeVars, rb, listVars, ringVars>>
       \/ /\ subject = "list" /\ L!Next
          /\ UNCHANGED <<treeVars, rb, hashVars, ringVars>>
       \/ /\ subject = "queue" /\ Q!Next
          /\ UNCHANGED <<treeVars, rb, hashVars, listVars>>

MCSpec == MCInit /\ [][MCNext]_<<subject, treeVars, rb, hashVars, listVars, ringVars>>
=============================================================================
