----------------------------- MODULE Containers -----------------------------
(***************************************************************************)
(* The containers that stand by themselves and share nothing, and what     *)
(* each promises.                                                          *)
(***************************************************************************)
EXTENDS Integers, Sequences, SequencesExt

CONSTANTS FirstBuckets, MaxBuckets, NOVAL, HashKey, HashVal, Hashed,
          ListSize, ListVal, Size, RingVal, MaxPush

VARIABLES
    htable_, size_used_, latest, where,
    nil, ring, live, pushed,
    data_, front_, rear_, size_, covered, waiting, pushes, spoilt

hashVars == <<htable_, size_used_, latest, where>>
listVars == <<nil, ring, live, pushed>>
ringVars == <<data_, front_, rear_, size_, covered, waiting, pushes, spoilt>>

\* What the containers expect of their parameters.
ASSUME ContainerAssumption ==
    /\ {MaxBuckets, ListSize, MaxPush} \subseteq Nat
    /\ {FirstBuckets, Size} \subseteq Nat \ {0}
    /\ Hashed \in [HashKey -> Nat]

H == INSTANCE HashTable
L == INSTANCE List
Q == INSTANCE RingQueue

-----------------------------------------------------------------------------
\* The hash table loses keys by growing and never shows an old value (hash_table.h).
HashNeverStale == H!NeverStale

\* The list is the same both ways round, and what was pushed (list.h).
ListBothWaysRound == L!BothWaysRound

\* The ring queue is first in, first out, for as long as the place behind its
\* array bears it (ring_queue.h).
QueueInOrder == Q!InOrder
=============================================================================
